---------------------------- MODULE Spec2Model ----------------------------
(***************************************************************************)
(* A model of the streaming ingestion pipeline of foggle:                  *)
(*   - WebsocketManager  (exchanges/hyperliquid/websocket_manager.py)      *)
(*   - API error classification (exchanges/hyperliquid/api.py)             *)
(*   - HL normalisation (exchanges/hyperliquid/hl.py)                      *)
(*   - Database upserts and contract resolution (store/timescaledb/db.py)  *)
(* Each subsystem has its own variables, actions and specification; the    *)
(* variables of the other subsystems stay at their constructed values.     *)
(***************************************************************************)
EXTENDS Integers, Sequences, FiniteSets, TLC

VARIABLES
    \* ---- WebsocketManager fields (websocket_manager.py:53-63)
    subscription_id_counter, ws_ready, queued_subscriptions,
    active_subscriptions, websocket, stop_event,
    \* ---- the connection behind self.websocket and the tasks' positions
    connOpen, connAttempts, wsPc, replayIdx, exitExc, pingPc, stopPc,
    clPc, clFrame,
    \* ---- history of the current connection and of the last calls
    sent, queueAtOpen, dispatched, leftBy, lastCall,
    \* ---- unsubscribe(): the caller's position, the locals of the call that
    \* is suspended in its send, the calls made, the frames sent and the
    \* last call with its effect
    unPc, unCall, unCount, unsubSent, lastUnsub,
    \* ---- API.post: the last response and what post() did with it
    apiLast,
    \* ---- HL._format_orderbook_data: the last message and its result
    obLast,
    \* ---- the database server: tables (committed rows, in order of
    \* commit), the serial of contracts.id, advisory locks held
    contracts, contractsSeq, trades, historical_data, advisoryLocks,
    \* ---- Database fields: _contract_cache and the pool's free connections
    contract_cache, poolFree,
    \* ---- the coroutines calling the database: position, arguments, locals
    \* and the uncommitted rows of their transactions
    task,
    \* ---- HL._candle_cache and the timestamps of the updates received
    candle_cache, arrived,
    \* ---- the number of trade records handed to insert_trades so far
    tradesSubmitted,
    \* ---- the table orderbook_snapshots and, for every key, the row as it
    \* was first committed
    orderbook_snapshots, firstLevels,
    \* ---- Stream.subscribe_all: its position, the three subscription coroutines
    \* (position, outcome of the venue call, exception in flight) and the
    \* errors logged
    saPc, stPc, stOutcome, stExc, fanLog,
    \* ---- the forwarding callbacks of the adapter: position and exception of
    \* forward_data per stream, frames forwarded, frames persisted
    fwPc, fwExc, cbFrames, cbStored,
    \* ---- HL.connectAsync: its position, the config, the venue's account state,
    \* self.info, self.exchange, self.address, the actions posted to the
    \* venue, the signed clients created, the exception raised
    hlPc, hlCfg, hlUser, hlInfo, hlExchange, hlAddress, hlPosted, hlClients, hlExc,
    \* the actions signed and by which wallet, the aiohttp sessions that are
    \* open, the wallet of self.exchange, the clients whose _initialized is set
    hlSigned, hlSessions, hlWallet, hlInitialized,
    \* ---- the tables news_items and news_categories, the calls of
    \* insert_news_item in flight, the server's clock in hours, the number of
    \* calls made and the time of the first one
    news_items, news_categories, newsTask, now, newsCalls, firstNewsCall,
    \* ---- the number of times the process was started again (the cache lost)
    processes,
    \* ---- the last call of HL._format_candle_data: its arguments, the window
    \* before and after, and what it returned
    lastFormat,
    \* ---- a ring buffer: capacity, _left_index, _right_index, _array; the live
    \* values as a list, the appends and pops made, the last operation, and
    \* the last call of _fix_indices_ on forced indices
    capacity, left_index, right_index, array, rbLive, rbAppended, rbPopped, rbLast, rbFix,
    \* ---- the dispatch of frames to the adapter: the forward_data callbacks
    \* registered per stream, the frames handed to them, the frames without a
    \* subscriber, the coroutine objects created and dropped, and the calls of
    \* Database.insert_<k>
    dpActive, dpDelivered, dpUnexpected, dpCoroutines, dpInserted,
    \* ---- upserts on a small pool: the free connections, each caller's position
    \* and upsert, whether the contract is cached, the holder of the advisory
    \* lock (0: nobody)
    plFree, plPc, plKind, plCached, plLock,
    \* ---- APIManager.exchanges and the position of _load_exchanges
    exchanges, amPc,
    \* ---- Info: _initialized, coin_to_asset, the callers of initialize (position and
    \* the meta they hold), the run_forever/send_ping pairs created by
    \* ws_manager.start(), the meta requests posted, the calls made
    info_initialized, coin_to_asset, infoPc, infoMeta, ws_tasks, metaRequests, infoCalls

wsVars == <<subscription_id_counter, ws_ready, queued_subscriptions,
            active_subscriptions, websocket, stop_event,
            connOpen, connAttempts, wsPc, replayIdx, exitExc, pingPc, stopPc,
            clPc, clFrame, sent, queueAtOpen, dispatched, leftBy, lastCall>>

unsubVars == <<unPc, unCall, unCount, unsubSent, lastUnsub>>

apiVars == <<apiLast>>

obVars == <<obLast>>

dbVars == <<contracts, contractsSeq, trades, historical_data, advisoryLocks,
            contract_cache, poolFree, task, candle_cache, arrived,
            tradesSubmitted>>

bookVars == <<orderbook_snapshots, firstLevels>>

fanVars == <<saPc, stPc, stOutcome, stExc, fanLog>>

cbVars == <<fwPc, fwExc, cbFrames, cbStored>>

hlVars == <<hlPc, hlCfg, hlUser, hlInfo, hlExchange, hlAddress, hlPosted, hlClients, hlExc,
            hlSigned, hlSessions, hlWallet, hlInitialized>>

newsVars == <<news_items, news_categories, newsTask, now, newsCalls, firstNewsCall>>

procVars == <<processes>>

fmtVars == <<lastFormat>>

rbVars == <<capacity, left_index, right_index, array, rbLive, rbAppended, rbPopped, rbLast, rbFix>>

dpVars == <<dpActive, dpDelivered, dpUnexpected, dpCoroutines, dpInserted>>

plVars == <<plFree, plPc, plKind, plCached, plLock>>

amVars == <<exchanges, amPc>>

infoVars == <<info_initialized, coin_to_asset, infoPc, infoMeta, ws_tasks, metaRequests, infoCalls>>

vars == <<wsVars, unsubVars, apiVars, obVars, dbVars, bookVars, fanVars, cbVars, hlVars, newsVars, procVars, fmtVars, rbVars, dpVars, plVars, amVars, infoVars>>

\* What the actions of one subsystem leave alone.
notWsVars == <<unsubVars, apiVars, obVars, dbVars, bookVars, fanVars, cbVars, hlVars, newsVars, procVars, fmtVars, rbVars, dpVars, plVars, amVars, infoVars>>
notApiVars == <<wsVars, unsubVars, obVars, dbVars, bookVars, fanVars, cbVars, hlVars, newsVars, procVars, fmtVars, rbVars, dpVars, plVars, amVars, infoVars>>
notObVars == <<wsVars, unsubVars, apiVars, dbVars, bookVars, fanVars, cbVars, hlVars, newsVars, procVars, fmtVars, rbVars, dpVars, plVars, amVars, infoVars>>
notDbVars == <<wsVars, unsubVars, apiVars, obVars, bookVars, fanVars, cbVars, hlVars, newsVars, procVars, fmtVars, rbVars, dpVars, plVars, amVars, infoVars>>
notUnsubVars == <<apiVars, obVars, dbVars, bookVars, fanVars, cbVars, hlVars, newsVars, procVars, fmtVars, rbVars, dpVars, plVars, amVars, infoVars>>
notBookVars == <<wsVars, unsubVars, apiVars, obVars, fanVars, cbVars, hlVars, newsVars, procVars, fmtVars, rbVars, dpVars, plVars, amVars, infoVars>>
notFanVars == <<wsVars, unsubVars, apiVars, obVars, dbVars, bookVars, cbVars, hlVars, newsVars, procVars, fmtVars, rbVars, dpVars, plVars, amVars, infoVars>>
notCbVars == <<wsVars, unsubVars, apiVars, obVars, dbVars, bookVars, fanVars, hlVars, newsVars, procVars, fmtVars, rbVars, dpVars, plVars, amVars, infoVars>>
notHlVars == <<wsVars, unsubVars, apiVars, obVars, dbVars, bookVars, fanVars, cbVars, newsVars, procVars, fmtVars, rbVars, dpVars, plVars, amVars, infoVars>>
notNewsVars == <<wsVars, unsubVars, apiVars, obVars, dbVars, bookVars, fanVars, cbVars, hlVars, procVars, fmtVars, rbVars, dpVars, plVars, amVars, infoVars>>
notProcVars == <<wsVars, unsubVars, apiVars, obVars, dbVars, bookVars, fanVars, cbVars, hlVars, newsVars, fmtVars, rbVars, dpVars, plVars, amVars, infoVars>>
notFmtVars == <<wsVars, unsubVars, apiVars, obVars, dbVars, bookVars, fanVars, cbVars, hlVars, newsVars, procVars, rbVars, dpVars, plVars, amVars, infoVars>>
notRbVars == <<wsVars, unsubVars, apiVars, obVars, dbVars, bookVars, fanVars, cbVars, hlVars, newsVars, procVars, fmtVars, dpVars, plVars, amVars, infoVars>>
notDpVars == <<wsVars, unsubVars, apiVars, obVars, dbVars, bookVars, fanVars, cbVars, hlVars, newsVars, procVars, fmtVars, rbVars, plVars, amVars, infoVars>>
notDbProcVars == <<wsVars, unsubVars, apiVars, obVars, bookVars, fanVars, cbVars, hlVars, newsVars, fmtVars, rbVars, dpVars, plVars, amVars, infoVars>>
notDbFmtVars == <<wsVars, unsubVars, apiVars, obVars, bookVars, fanVars, cbVars, hlVars, newsVars, procVars, rbVars, dpVars, plVars, amVars, infoVars>>
notPlVars == <<wsVars, unsubVars, apiVars, obVars, dbVars, bookVars, fanVars, cbVars, hlVars, newsVars, procVars, fmtVars, rbVars, dpVars, amVars, infoVars>>
notAmVars == <<wsVars, unsubVars, apiVars, obVars, dbVars, bookVars, fanVars, cbVars, hlVars, newsVars, procVars, fmtVars, rbVars, dpVars, plVars, infoVars>>
notInfoVars == <<wsVars, unsubVars, apiVars, obVars, dbVars, bookVars, fanVars, cbVars, hlVars, newsVars, procVars, fmtVars, rbVars, dpVars, plVars, amVars>>

-----------------------------------------------------------------------------
(* Bounds of the model.                                                    *)

\* subscribe() calls made by the manager's users
MaxSubs == 2
\* connection attempts of the reconnect loop
MaxConn == 2
\* unsubscribe() calls made by the manager's users
MaxUnsubs == 2
\* coroutines calling the database concurrently
NTasks == 2
\* trade records handed to insert_trades, all calls together
MaxTrades == 4

-----------------------------------------------------------------------------
(* WebsocketManager                                                        *)

\* str.lower() on the coin names that occur
Lower(c) ==
    CASE c = "ETH" -> "eth"
      [] c = "eth" -> "eth"
      [] c = "BTC" -> "btc"
      [] OTHER -> c

\* The subscriptions callers submit: one exclusive topic, one shared topic.
Subscriptions ==
    { [type |-> "userEvents", coin |-> ""],
      [type |-> "trades", coin |-> "ETH"] }

\* Callbacks are told apart by whether calling them raises.
Callbacks == {"ok", "raises"}

subscription_to_identifier(s) ==
    CASE s.type = "allMids" -> "allMids"
      [] s.type = "userEvents" -> "userEvents"
      [] s.type = "orderUpdates" -> "orderUpdates"
      [] s.type = "trades" /\ Lower(s.coin) = "eth" -> "trades:eth"
      [] s.type = "trades" /\ Lower(s.coin) = "btc" -> "trades:btc"
      [] s.type = "l2Book" /\ Lower(s.coin) = "eth" -> "l2Book:eth"
      [] s.type = "l2Book" /\ Lower(s.coin) = "btc" -> "l2Book:btc"

Identifiers ==
    {"allMids", "userEvents", "orderUpdates", "trades:eth", "trades:btc",
     "l2Book:eth", "l2Book:btc"}

\* Inbound frames: the textual greeting, text that is not JSON, and JSON
\* envelopes {channel, data}; len is len(data) of a trades frame.
Frames ==
    { [kind |-> "greeting", channel |-> "", coin |-> "", len |-> 0],
      [kind |-> "garbage", channel |-> "", coin |-> "", len |-> 0],
      [kind |-> "json", channel |-> "pong", coin |-> "", len |-> 0],
      [kind |-> "json", channel |-> "subscriptionResponse", coin |-> "", len |-> 0],
      [kind |-> "json", channel |-> "user", coin |-> "", len |-> 1],
      [kind |-> "json", channel |-> "trades", coin |-> "ETH", len |-> 1],
      [kind |-> "json", channel |-> "trades", coin |-> "ETH", len |-> 0],
      [kind |-> "json", channel |-> "trades", coin |-> "BTC", len |-> 1] }

\* ws_msg_to_identifier: "None" stands for Python's None
ws_msg_to_identifier(m) ==
    CASE m.channel = "pong" -> "pong"
      [] m.channel = "allMids" -> "allMids"
      [] m.channel = "user" -> "userEvents"
      [] m.channel = "orderUpdates" -> "orderUpdates"
      [] m.channel = "trades" /\ m.len > 0 /\ Lower(m.coin) = "eth" -> "trades:eth"
      [] m.channel = "trades" /\ m.len > 0 /\ Lower(m.coin) = "btc" -> "trades:btc"
      [] m.channel = "trades" /\ m.len = 0 -> "None"
      [] m.channel = "l2Book" /\ Lower(m.coin) = "eth" -> "l2Book:eth"
      [] m.channel = "l2Book" /\ Lower(m.coin) = "btc" -> "l2Book:btc"
      [] OTHER -> "None"

ExclusiveIdentifiers == {"userEvents", "orderUpdates"}

\* An entry that is stored under another id than the one it was given.
ActiveSubscription_OtherId(cb, id) ==
    [callback |-> cb, subscription_id |-> id + 1]

\* ActiveSubscription(callback, subscription_id)
ActiveSubscription(cb, id) == [callback |-> cb, subscription_id |-> id]

NoCall ==
    [op |-> "none", ident |-> "None", subscription_id |-> 0,
     hadActive |-> FALSE, outcome |-> "none"]

WsInit ==
    /\ subscription_id_counter = 0
    /\ ws_ready = FALSE
    /\ queued_subscriptions = <<>>
    /\ active_subscriptions = [i \in Identifiers |-> <<>>]
    /\ websocket = "None"
    /\ stop_event = FALSE
    /\ connOpen = FALSE
    /\ connAttempts = 0
    /\ wsPc = "notstarted"
    /\ replayIdx = 0
    /\ exitExc = FALSE
    /\ pingPc = "notstarted"
    /\ stopPc = "idle"
    /\ clPc = "idle"
    /\ clFrame = <<>>
    /\ sent = <<>>
    /\ queueAtOpen = <<>>
    /\ dispatched = FALSE
    /\ leftBy = "none"
    /\ lastCall = NoCall


\* What run_forever does once it has left the "async with" block:
\* "if not self.stop_event.is_set(): await asyncio.sleep(5)", then the
\* loop test ("loop": suspended before the test of the outer loop).
AfterExit == IF stop_event THEN "done" ELSE "loop"

\* The synchronous part of subscribe() on a ready connection: the
\* exclusivity test and the registration that precede "await send".
SubscribeRaises(ident) ==
    ident \in ExclusiveIdentifiers /\ active_subscriptions[ident] # <<>>

Register(ident, a) ==
    [active_subscriptions EXCEPT ![ident] = Append(@, a)]

\* "while not self.stop_event.is_set(): message = await websocket.recv()"
EnterReadLoop(keep) ==
    IF stop_event
    THEN /\ wsPc' = "aexit" /\ exitExc' = FALSE /\ leftBy' = "stop"
    ELSE /\ wsPc' = "recv" /\ exitExc' = FALSE /\ leftBy' = keep

\* A replay that walks the queue from its tail.
ReplayOrder_Reversed(q) == [i \in 1..Len(q) |-> q[Len(q) + 1 - i]]

\* The order in which run_forever walks the queue.
ReplayOrder(q) == q

\* The replay loop from entry i up to its next suspension: the await of
\* send inside subscribe(), the first recv, or an exception.
Replay(i, keep) ==
    LET q == ReplayOrder(queued_subscriptions) IN
    IF i > Len(q)
    THEN /\ queued_subscriptions' = <<>>
         /\ active_subscriptions' = active_subscriptions
         /\ replayIdx' = 0
         /\ EnterReadLoop(keep)
    ELSE LET e == q[i]
             ident == subscription_to_identifier(e.subscription)
         IN  /\ queued_subscriptions' = queued_subscriptions
             /\ IF SubscribeRaises(ident)
                THEN /\ active_subscriptions' = active_subscriptions
                     /\ replayIdx' = 0
                     /\ wsPc' = "aexit" /\ exitExc' = TRUE
                     /\ leftBy' = "exclusive"
                ELSE /\ active_subscriptions' = Register(ident, e.active)
                     /\ replayIdx' = i
                     /\ wsPc' = "replay_send" /\ exitExc' = FALSE
                     /\ leftBy' = keep

\* start(): create_task(run_forever()), create_task(send_ping())
Start ==
    /\ wsPc = "notstarted"
    /\ wsPc' = "loop"
    /\ pingPc' = "loop"
    /\ UNCHANGED <<subscription_id_counter, ws_ready, queued_subscriptions,
                   active_subscriptions, websocket, stop_event, connOpen,
                   connAttempts, replayIdx, exitExc, stopPc, clPc, clFrame,
                   sent, queueAtOpen, dispatched, leftBy, lastCall>>
    /\ UNCHANGED notWsVars

\* run_forever: the task starts, or asyncio.sleep(5) is over: the test of
\* the outer loop, then "async with websockets.connect(...)"
RunLoopEnter ==
    /\ wsPc = "loop"
    /\ wsPc' = IF stop_event THEN "done" ELSE "connecting"
    /\ UNCHANGED <<subscription_id_counter, ws_ready, queued_subscriptions,
                   active_subscriptions, websocket, stop_event, connOpen,
                   connAttempts, replayIdx, exitExc, pingPc, stopPc, clPc,
                   clFrame, sent, queueAtOpen, dispatched, leftBy, lastCall>>
    /\ UNCHANGED notWsVars

\* websockets.connect() raises: "except Exception", ws_ready = False
ConnectFail ==
    /\ wsPc = "connecting"
    /\ connAttempts < MaxConn
    /\ connAttempts' = connAttempts + 1
    /\ ws_ready' = FALSE
    /\ wsPc' = AfterExit
    /\ leftBy' = "connect"
    /\ UNCHANGED <<subscription_id_counter, queued_subscriptions,
                   active_subscriptions, websocket, stop_event, connOpen,
                   replayIdx, exitExc, pingPc, stopPc, clPc, clFrame,
                   sent, queueAtOpen, dispatched, lastCall>>
    /\ UNCHANGED notWsVars

\* websockets.connect() succeeds: the websocket is stored, ws_ready is set
\* and the queue is replayed up to the first await.
ConnectOk ==
    /\ wsPc = "connecting"
    /\ connAttempts < MaxConn
    /\ connAttempts' = connAttempts + 1
    /\ websocket' = "ws"
    /\ connOpen' = TRUE
    /\ ws_ready' = TRUE
    /\ sent' = <<>>
    /\ queueAtOpen' = queued_subscriptions
    /\ dispatched' = FALSE
    /\ Replay(1, "none")
    /\ UNCHANGED <<subscription_id_counter, stop_event, pingPc, stopPc,
                   clPc, clFrame, lastCall>>
    /\ UNCHANGED notWsVars

\* the send awaited inside the replayed subscribe() completes
ReplaySendOk ==
    /\ wsPc = "replay_send"
    /\ connOpen
    /\ LET e == ReplayOrder(queued_subscriptions)[replayIdx] IN
       sent' = Append(sent, [subscription |-> e.subscription,
                             subscription_id |-> e.active.subscription_id])
    /\ Replay(replayIdx + 1, leftBy)
    /\ UNCHANGED <<subscription_id_counter, ws_ready, websocket, stop_event,
                   connOpen, connAttempts, pingPc, stopPc, clPc, clFrame,
                   queueAtOpen, dispatched, lastCall>>
    /\ UNCHANGED notWsVars

\* the send awaited inside the replayed subscribe() raises: the connection
\* is gone
ReplaySendFail ==
    /\ wsPc = "replay_send"
    /\ ~connOpen
    /\ wsPc' = "aexit"
    /\ exitExc' = TRUE
    /\ leftBy' = "io"
    /\ replayIdx' = 0
    /\ UNCHANGED <<subscription_id_counter, ws_ready, queued_subscriptions,
                   active_subscriptions, websocket, stop_event, connOpen,
                   connAttempts, pingPc, stopPc, clPc, clFrame, sent,
                   queueAtOpen, dispatched, lastCall>>
    /\ UNCHANGED notWsVars

\* Which exceptions of the inner loop body are caught by the inner "except
\* websockets.exceptions.ConnectionClosed: break".
InnerCatches(exc) == exc = "ConnectionClosed"

\* on_message(message): what it raises ("none" when it returns).
OnMessageRaises(f) ==
    IF f.kind = "greeting" THEN "none"
    ELSE IF f.kind = "garbage" THEN "JSONDecodeError"
    ELSE LET ident == ws_msg_to_identifier(f) IN
         IF ident \in {"pong", "None"} THEN "none"
         ELSE IF \E k \in 1..Len(active_subscriptions[ident]) :
                    active_subscriptions[ident][k].callback = "raises"
              THEN "CallbackError"
              ELSE "none"

\* on_message(message): the subscribers whose callback the loop over
\* active_subscriptions[identifier] calls, in the order of the calls: the
\* loop ends with the first callback that raises.
InvokedCallbacks(f) ==
    LET subs == active_subscriptions[ws_msg_to_identifier(f)]
        raising == { k \in 1..Len(subs) : subs[k].callback = "raises" }
    IN  IF raising = {} THEN subs
        ELSE SubSeq(subs, 1, CHOOSE k \in raising : \A j \in raising : k <= j)

\* on_message(message): whether it calls at least one callback.
OnMessageDispatches(f) ==
    /\ f.kind = "json"
    /\ ws_msg_to_identifier(f) \notin {"pong", "None"}
    /\ active_subscriptions[ws_msg_to_identifier(f)] # <<>>

\* "message = await websocket.recv(); await self.on_message(message)"
Recv(f) ==
    /\ wsPc = "recv"
    /\ connOpen
    /\ dispatched' = (dispatched \/ OnMessageDispatches(f))
    /\ LET exc == OnMessageRaises(f) IN
       IF exc = "none"
       THEN EnterReadLoop(leftBy)
       ELSE IF InnerCatches(exc)
            THEN /\ wsPc' = "aexit" /\ exitExc' = FALSE /\ leftBy' = "io"
            ELSE /\ wsPc' = "aexit" /\ exitExc' = TRUE
                 /\ leftBy' = IF exc = "JSONDecodeError" THEN "decode"
                              ELSE "callback"
    /\ UNCHANGED <<subscription_id_counter, ws_ready, queued_subscriptions,
                   active_subscriptions, websocket, stop_event, connOpen,
                   connAttempts, replayIdx, pingPc, stopPc, clPc, clFrame,
                   sent, queueAtOpen, lastCall>>
    /\ UNCHANGED notWsVars

\* recv() raises ConnectionClosed: "break"
RecvClosed ==
    /\ wsPc = "recv"
    /\ ~connOpen
    /\ wsPc' = "aexit"
    /\ exitExc' = ~InnerCatches("ConnectionClosed")
    /\ leftBy' = "io"
    /\ UNCHANGED <<subscription_id_counter, ws_ready, queued_subscriptions,
                   active_subscriptions, websocket, stop_event, connOpen,
                   connAttempts, replayIdx, pingPc, stopPc, clPc, clFrame,
                   sent, queueAtOpen, dispatched, lastCall>>
    /\ UNCHANGED notWsVars

\* Leaving "async with websockets.connect(...)": the connection is closed;
\* after an exception the handler then clears ws_ready.
AExit ==
    /\ wsPc = "aexit"
    /\ connOpen' = FALSE
    /\ ws_ready' = IF exitExc THEN FALSE ELSE ws_ready
    /\ exitExc' = FALSE
    /\ wsPc' = AfterExit
    /\ UNCHANGED <<subscription_id_counter, queued_subscriptions,
                   active_subscriptions, websocket, stop_event,
                   connAttempts, replayIdx, pingPc, stopPc, clPc, clFrame,
                   sent, queueAtOpen, dispatched, leftBy, lastCall>>
    /\ UNCHANGED notWsVars

\* The venue or the network drops the connection.
ConnDrop ==
    /\ connOpen
    /\ connOpen' = FALSE
    /\ UNCHANGED <<subscription_id_counter, ws_ready, queued_subscriptions,
                   active_subscriptions, websocket, stop_event,
                   connAttempts, wsPc, replayIdx, exitExc, pingPc, stopPc,
                   clPc, clFrame, sent, queueAtOpen, dispatched, leftBy,
                   lastCall>>
    /\ UNCHANGED notWsVars


\* send_ping: the task starts, or asyncio.sleep(50) is over: the loop test
\* and the test before the send ("loop": suspended before the loop test)
PingLoop ==
    /\ pingPc = "loop"
    /\ pingPc' = IF stop_event THEN "done"
                 ELSE IF ws_ready /\ websocket # "None" THEN "sending"
                 ELSE "loop"
    /\ UNCHANGED <<subscription_id_counter, ws_ready, queued_subscriptions,
                   active_subscriptions, websocket, stop_event, connOpen,
                   connAttempts, wsPc, replayIdx, exitExc, stopPc, clPc,
                   clFrame, sent, queueAtOpen, dispatched, leftBy, lastCall>>
    /\ UNCHANGED notWsVars

\* send_ping: the send returns or raises (the exception is logged), then
\* asyncio.sleep(50)
PingSent ==
    /\ pingPc = "sending"
    /\ pingPc' = "loop"
    /\ UNCHANGED <<subscription_id_counter, ws_ready, queued_subscriptions,
                   active_subscriptions, websocket, stop_event, connOpen,
                   connAttempts, wsPc, replayIdx, exitExc, stopPc, clPc,
                   clFrame, sent, queueAtOpen, dispatched, leftBy, lastCall>>
    /\ UNCHANGED notWsVars

\* stop(): stop_event.set(), then "if self.websocket: await
\* self.websocket.close()"; stop() is then suspended in close() or in
\* "await self.ping_task"
StopCall ==
    /\ stopPc = "idle"
    /\ wsPc # "notstarted"
    /\ stop_event' = TRUE
    /\ connOpen' = IF websocket # "None" THEN FALSE ELSE connOpen
    /\ stopPc' = "await_ping"
    /\ UNCHANGED <<subscription_id_counter, ws_ready, queued_subscriptions,
                   active_subscriptions, websocket, connAttempts, wsPc,
                   replayIdx, exitExc, pingPc, clPc, clFrame, sent,
                   queueAtOpen, dispatched, leftBy, lastCall>>
    /\ UNCHANGED notWsVars

\* stop(): close() has returned and "await self.ping_task" is over
StopAwaitPing ==
    /\ stopPc = "await_ping"
    /\ pingPc = "done"
    /\ stopPc' = "await_ws"
    /\ UNCHANGED <<subscription_id_counter, ws_ready, queued_subscriptions,
                   active_subscriptions, websocket, stop_event, connOpen,
                   connAttempts, wsPc, replayIdx, exitExc, pingPc, clPc,
                   clFrame, sent, queueAtOpen, dispatched, leftBy, lastCall>>
    /\ UNCHANGED notWsVars

\* stop(): "await self.ws_task" when the task has not finished
StopAwaitWs_NoJoin ==
    /\ stopPc = "await_ws"
    /\ stopPc' = "returned"
    /\ UNCHANGED <<subscription_id_counter, ws_ready, queued_subscriptions,
                   active_subscriptions, websocket, stop_event, connOpen,
                   connAttempts, wsPc, replayIdx, exitExc, pingPc, clPc,
                   clFrame, sent, queueAtOpen, dispatched, leftBy, lastCall>>
    /\ UNCHANGED notWsVars

\* stop(): "await self.ws_task", then stop() returns
StopAwaitWs ==
    /\ stopPc = "await_ws"
    /\ wsPc = "done"
    /\ stopPc' = "returned"
    /\ UNCHANGED <<subscription_id_counter, ws_ready, queued_subscriptions,
                   active_subscriptions, websocket, stop_event, connOpen,
                   connAttempts, wsPc, replayIdx, exitExc, pingPc, clPc,
                   clFrame, sent, queueAtOpen, dispatched, leftBy, lastCall>>
    /\ UNCHANGED notWsVars

\* subscribe(subscription, callback) called by a user of the manager, up to
\* its return or to its "await self.websocket.send(...)".
Subscribe(s, cb) ==
    /\ clPc = "idle"
    /\ subscription_id_counter < MaxSubs
    /\ LET id == subscription_id_counter + 1
           ident == subscription_to_identifier(s)
           call == [op |-> "subscribe", ident |-> ident,
                    subscription_id |-> id,
                    hadActive |-> active_subscriptions[ident] # <<>>,
                    outcome |-> "none"]
       IN  /\ subscription_id_counter' = id
           /\ IF ~ws_ready
              THEN /\ queued_subscriptions' =
                        Append(queued_subscriptions,
                               [subscription |-> s,
                                active |-> ActiveSubscription(cb, id)])
                   /\ lastCall' = [call EXCEPT !.outcome = "queued"]
                   /\ UNCHANGED <<active_subscriptions, clPc, clFrame>>
              ELSE IF SubscribeRaises(ident)
              THEN /\ lastCall' = [call EXCEPT !.outcome = "raised"]
                   /\ UNCHANGED <<queued_subscriptions, active_subscriptions,
                                  clPc, clFrame>>
              ELSE /\ active_subscriptions' =
                        Register(ident, ActiveSubscription(cb, id))
                   /\ clPc' = "sending"
                   /\ clFrame' = <<[subscription |-> s, subscription_id |-> id,
                                    conn |-> connAttempts]>>
                   /\ lastCall' = [call EXCEPT !.outcome = "registered"]
                   /\ UNCHANGED queued_subscriptions
    /\ UNCHANGED <<ws_ready, websocket, stop_event, connOpen, connAttempts,
                   wsPc, replayIdx, exitExc, pingPc, stopPc, sent,
                   queueAtOpen, dispatched, leftBy>>
    /\ UNCHANGED notWsVars

\* subscribe(): the awaited send completes on the connection it was
\* started on, and subscribe() returns the id
ClientSendOk ==
    /\ clPc = "sending"
    /\ connOpen /\ clFrame[1].conn = connAttempts
    /\ sent' = Append(sent, [subscription |-> clFrame[1].subscription,
                             subscription_id |-> clFrame[1].subscription_id])
    /\ clPc' = "idle"
    /\ clFrame' = <<>>
    /\ UNCHANGED <<subscription_id_counter, ws_ready, queued_subscriptions,
                   active_subscriptions, websocket, stop_event, connOpen,
                   connAttempts, wsPc, replayIdx, exitExc, pingPc, stopPc,
                   queueAtOpen, dispatched, leftBy, lastCall>>
    /\ UNCHANGED notWsVars

\* subscribe(): the awaited send raises because its connection is closed
ClientSendFail ==
    /\ clPc = "sending"
    /\ ~(connOpen /\ clFrame[1].conn = connAttempts)
    /\ clPc' = "idle"
    /\ clFrame' = <<>>
    /\ UNCHANGED <<subscription_id_counter, ws_ready, queued_subscriptions,
                   active_subscriptions, websocket, stop_event, connOpen,
                   connAttempts, wsPc, replayIdx, exitExc, pingPc, stopPc,
                   sent, queueAtOpen, dispatched, leftBy, lastCall>>
    /\ UNCHANGED notWsVars

\* ---- unsubscribe

NoUnsub ==
    [op |-> "none", ident |-> "None", subscription_id |-> 0,
     before |-> <<>>, after |-> <<>>, frame |-> FALSE, outcome |-> "none"]

UnsubInit ==
    /\ unPc = "idle"
    /\ unCall = <<>>
    /\ unCount = 0
    /\ unsubSent = <<>>
    /\ lastUnsub = NoUnsub

\* [x for x in active_subscriptions if x.subscription_id != subscription_id]
WithoutId(active, subscription_id) ==
    LET Keep(x) == x.subscription_id # subscription_id
    IN  SelectSeq(active, Keep)

\* What is left of the manager's fields by every step of unsubscribe().
UnsubFrame ==
    UNCHANGED <<subscription_id_counter, ws_ready, queued_subscriptions,
                websocket, stop_event, connOpen, connAttempts, wsPc,
                replayIdx, exitExc, pingPc, stopPc, clPc, clFrame, sent,
                queueAtOpen, dispatched, leftBy, lastCall>>

\* unsubscribe(subscription, subscription_id) called by a user of the
\* manager, up to its return, its raise, or its "await
\* self.websocket.send(...)".
Unsubscribe(s, subscription_id) ==
    /\ unPc = "idle"
    /\ unCount < MaxUnsubs
    /\ unCount' = unCount + 1
    /\ LET ident == subscription_to_identifier(s)
           active == active_subscriptions[ident]
           new_active == WithoutId(active, subscription_id)
           call == [op |-> "unsubscribe", ident |-> ident,
                    subscription_id |-> subscription_id,
                    before |-> active, after |-> active,
                    frame |-> FALSE, outcome |-> "none"]
       IN  IF ~ws_ready
           THEN /\ lastUnsub' = [call EXCEPT !.outcome = "raised"]
                /\ UNCHANGED <<active_subscriptions, unPc, unCall, unsubSent>>
           ELSE IF new_active = <<>>
           THEN /\ unPc' = "sending"
                /\ unCall' = <<[subscription |-> s, ident |-> ident,
                                subscription_id |-> subscription_id,
                                active |-> active, new_active |-> new_active,
                                conn |-> connAttempts]>>
                /\ lastUnsub' = call
                /\ UNCHANGED <<active_subscriptions, unsubSent>>
           ELSE /\ active_subscriptions' =
                     [active_subscriptions EXCEPT ![ident] = new_active]
                /\ lastUnsub' =
                     [call EXCEPT !.after = new_active,
                                  !.outcome =
                                      IF Len(active) # Len(new_active)
                                      THEN "true" ELSE "false"]
                /\ UNCHANGED <<unPc, unCall, unsubSent>>
    /\ UnsubFrame
    /\ UNCHANGED notUnsubVars

\* unsubscribe(): the awaited send completes on the connection it was
\* started on; the registry entry is replaced by the list computed before
\* the send and the comparison of the lengths is returned.
UnsubSendOk ==
    /\ unPc = "sending"
    /\ connOpen /\ unCall[1].conn = connAttempts
    /\ unsubSent' = Append(unsubSent, unCall[1].subscription)
    /\ active_subscriptions' =
          [active_subscriptions EXCEPT ![unCall[1].ident] = unCall[1].new_active]
    /\ lastUnsub' =
          [lastUnsub EXCEPT !.after = unCall[1].new_active,
                            !.frame = TRUE,
                            !.outcome =
                                IF Len(unCall[1].active) # Len(unCall[1].new_active)
                                THEN "true" ELSE "false"]
    /\ unPc' = "idle"
    /\ unCall' = <<>>
    /\ UNCHANGED unCount
    /\ UnsubFrame
    /\ UNCHANGED notUnsubVars

\* unsubscribe(): the awaited send raises because its connection is
\* closed; the registry is not touched and the exception reaches the caller
UnsubSendFail ==
    /\ unPc = "sending"
    /\ ~(connOpen /\ unCall[1].conn = connAttempts)
    /\ lastUnsub' = [lastUnsub EXCEPT !.after = active_subscriptions[unCall[1].ident],
                                      !.outcome = "raised"]
    /\ unPc' = "idle"
    /\ unCall' = <<>>
    /\ UNCHANGED <<active_subscriptions, unCount, unsubSent>>
    /\ UnsubFrame
    /\ UNCHANGED notUnsubVars

WsNext ==
    \/ Start
    \/ RunLoopEnter
    \/ ConnectFail
    \/ ConnectOk
    \/ ReplaySendOk
    \/ ReplaySendFail
    \/ \E f \in Frames : Recv(f)
    \/ RecvClosed
    \/ AExit
    \/ ConnDrop
    \/ PingLoop
    \/ PingSent
    \/ StopCall
    \/ StopAwaitPing
    \/ StopAwaitWs
    \/ \E s \in Subscriptions, cb \in Callbacks : Subscribe(s, cb)
    \/ ClientSendOk
    \/ ClientSendFail


-----------------------------------------------------------------------------
(* API.post and API._handle_exception (api.py)                             *)

\* Python values that the exceptions carry.
PyStr(x) == [t |-> "str", v |-> x]
PyNone == [t |-> "NoneType", v |-> ""]
PyHeaders == [t |-> "headers", v |-> ""]

\* The response bodies of the model, as text.
Bodies ==
    { "{\"code\":\"91\",\"msg\":\"bad nonce\"}",
      "{\"code\":\"7\",\"msg\":\"rate limited\",\"data\":\"retry\"}",
      "{\"msg\":\"bad nonce\"}",
      "{\"code\":\"91\"}",
      "{\"status\":\"ok\"}",
      "{}",
      "[\"91\",\"bad nonce\"]",
      "\"bad nonce\"",
      "null",
      "Bad Gateway",
      "" }

Statuses == {200, 204, 302, 399, 400, 404, 422, 429, 499, 500, 502, 503}

\* orjson.loads on the bodies of the model: ok is FALSE when it raises
\* JSONDecodeError; a JSON object is the function from its keys to its
\* values (all strings here).
orjson_loads(text) ==
    CASE text = "{\"code\":\"91\",\"msg\":\"bad nonce\"}" ->
            [ok |-> TRUE, type |-> "dict",
             dict |-> ("code" :> "91" @@ "msg" :> "bad nonce")]
      [] text = "{\"code\":\"7\",\"msg\":\"rate limited\",\"data\":\"retry\"}" ->
            [ok |-> TRUE, type |-> "dict",
             dict |-> ("code" :> "7" @@ "msg" :> "rate limited"
                       @@ "data" :> "retry")]
      [] text = "{\"msg\":\"bad nonce\"}" ->
            [ok |-> TRUE, type |-> "dict", dict |-> ("msg" :> "bad nonce")]
      [] text = "{\"code\":\"91\"}" ->
            [ok |-> TRUE, type |-> "dict", dict |-> ("code" :> "91")]
      [] text = "{\"status\":\"ok\"}" ->
            [ok |-> TRUE, type |-> "dict", dict |-> ("status" :> "ok")]
      [] text = "{}" ->
            [ok |-> TRUE, type |-> "dict", dict |-> <<>>]
      [] text = "[\"91\",\"bad nonce\"]" ->
            [ok |-> TRUE, type |-> "list", dict |-> <<>>]
      [] text = "\"bad nonce\"" ->
            [ok |-> TRUE, type |-> "str", dict |-> <<>>]
      [] text = "null" ->
            [ok |-> TRUE, type |-> "NoneType", dict |-> <<>>]
      [] OTHER ->
            [ok |-> FALSE, type |-> "", dict |-> <<>>]

\* dict.get(key): None when the key is absent
DictGet(d, key) == IF key \in DOMAIN d THEN PyStr(d[key]) ELSE PyNone

NoException == [raised |-> "none", args |-> <<>>]

\* raise <exception>(*args)
Raise(exc, args) == [raised |-> exc, args |-> args]

\* _handle_exception with the code and the message of the body exchanged
handle_exception_SwappedFields(status_code, text) ==
    IF status_code < 400 THEN NoException
    ELSE IF 400 <= status_code /\ status_code < 500
    THEN LET err == orjson_loads(text) IN
         IF ~err.ok
         THEN Raise("ClientError",
                    <<status_code, PyNone, PyStr(text), PyNone, PyHeaders>>)
         ELSE IF err.type = "NoneType"
         THEN Raise("ClientError",
                    <<status_code, PyNone, PyStr(text), PyNone, PyHeaders>>)
         ELSE IF err.type # "dict"
         THEN Raise("AttributeError", <<>>)
         ELSE IF "code" \notin DOMAIN err.dict \/ "msg" \notin DOMAIN err.dict
         THEN Raise("KeyError", <<>>)
         ELSE Raise("ClientError",
                    <<status_code, PyStr(err.dict["msg"]),
                      PyStr(err.dict["code"]), PyHeaders,
                      DictGet(err.dict, "data")>>)
    ELSE Raise("ServerError", <<status_code, PyStr(text)>>)

\* API._handle_exception(response): the exception it raises, with the
\* arguments of its constructor in the order of the raise statement.
handle_exception(status_code, text) ==
    IF status_code < 400 THEN NoException
    ELSE IF 400 <= status_code /\ status_code < 500
    THEN LET err == orjson_loads(text) IN
         IF ~err.ok
         THEN Raise("ClientError",
                    <<status_code, PyNone, PyStr(text), PyNone, PyHeaders>>)
         ELSE IF err.type = "NoneType"
         THEN Raise("ClientError",
                    <<status_code, PyNone, PyStr(text), PyNone, PyHeaders>>)
         ELSE IF err.type # "dict"
         THEN \* err.get: a list or a str has no attribute "get"
              Raise("AttributeError", <<>>)
         ELSE IF "code" \notin DOMAIN err.dict \/ "msg" \notin DOMAIN err.dict
         THEN \* err["code"], err["msg"]
              Raise("KeyError", <<>>)
         ELSE Raise("ClientError",
                    <<status_code, PyStr(err.dict["code"]),
                      PyStr(err.dict["msg"]), PyHeaders,
                      DictGet(err.dict, "data")>>)
    ELSE Raise("ServerError", <<status_code, PyStr(text)>>)

\* API.post: what it raises, or what it returns ("json": the decoded body,
\* "error": the {"error": "Could not parse JSON: ..."} dict).
post(status_code, text) ==
    LET exc == handle_exception(status_code, text) IN
    IF exc.raised # "none"
    THEN [raised |-> exc.raised, args |-> exc.args, returns |-> "nothing"]
    ELSE [raised |-> "none", args |-> <<>>,
          returns |-> IF orjson_loads(text).ok THEN "json" ELSE "error"]

ApiInit ==
    apiLast = [called |-> FALSE, status |-> 0, text |-> "",
               raised |-> "none", args |-> <<>>, returns |-> "nothing"]

\* One call of API.post answered by the venue with (status_code, text).
Post(status_code, text) ==
    /\ LET r == post(status_code, text) IN
       apiLast' = [called |-> TRUE, status |-> status_code, text |-> text,
                   raised |-> r.raised, args |-> r.args,
                   returns |-> r.returns]
    /\ UNCHANGED notApiVars

ApiNext == \E status_code \in Statuses, text \in Bodies : Post(status_code, text)

-----------------------------------------------------------------------------
(* HL normalisation (hl.py)                                                *)

\* float() on the decimal strings of the model, in thousandths.
Float(str) ==
    CASE str = "3000" -> 3000000
      [] str = "3001" -> 3001000
      [] str = "1.5" -> 1500
      [] str = "0.8" -> 800
      [] str = "0" -> 0
      [] str = "0.0" -> 0
      [] str = "12.5" -> 12500

\* Info.coin_to_max_leverage as filled by Info.initialize from the venue's
\* metadata; "None" when the coin has no maxLeverage.
coin_to_max_leverage == ("ETH" :> "25" @@ "BTC" :> "40")

\* a Python int, written in decimal
PyInt(x) == [t |-> "int", v |-> x]

\* Info.get_max_leverage(name)
get_max_leverage(name) ==
    IF name \in DOMAIN coin_to_max_leverage
    THEN PyInt(coin_to_max_leverage[name])
    ELSE PyNone

\* The price levels of the wire format.
WireLevels ==
    { [px |-> "3000", sz |-> "1.5", n |-> 2],
      [px |-> "3001", sz |-> "0.8", n |-> 1] }

\* longest side of a book in the model
MaxLevels == 2

SeqsUpTo(S, n) == UNION { [1..k -> S] : k \in 0..n }

WireSides == SeqsUpTo(WireLevels, MaxLevels)

\* The "levels" arrays of the model: no element, one, two, and three.
WireLevelArrays ==
    { <<>> }
    \cup { <<a>> : a \in WireSides }
    \cup { <<a, b>> : a \in WireSides, b \in WireSides }
    \cup { <<a, b, a>> : a \in WireSides \ {<<>>}, b \in {<<>>} }

\* l2Book messages: data = {coin, time, levels?}
OrderbookMessages ==
    [coin : {"ETH", "SOL"}, time : {1700000000}, hasLevels : {TRUE},
     levels : WireLevelArrays]
    \cup [coin : {"ETH", "SOL"}, time : {1700000000}, hasLevels : {FALSE},
          levels : {<<>>}]

contract_info(symbol) ==
    [symbol |-> symbol, secType |-> "PERP", exchange |-> "HYPERLIQUID",
     multiplier |-> get_max_leverage(symbol), currency |-> "USD"]

\* {"price": float(level['px']), "qty": float(level['sz']), "orders": level['n']}
FormatLevel(level) ==
    [price |-> Float(level.px), qty |-> Float(level.sz), orders |-> level.n]

FormatSide(side) == [i \in 1..Len(side) |-> FormatLevel(side[i])]

\* _format_orderbook_data reading the asks from index 0 and the bids from
\* index 1
format_orderbook_data_Swapped(data) ==
    [contract |-> contract_info(data.coin),
     timestamp |-> data.time,
     bids |-> IF data.hasLevels /\ Len(data.levels) = 2
              THEN FormatSide(data.levels[2]) ELSE <<>>,
     asks |-> IF data.hasLevels /\ Len(data.levels) = 2
              THEN FormatSide(data.levels[1]) ELSE <<>>]

\* HL._format_orderbook_data(message), data = message['data']
format_orderbook_data(data) ==
    [contract |-> contract_info(data.coin),
     timestamp |-> data.time,
     bids |-> IF data.hasLevels /\ Len(data.levels) = 2
              THEN FormatSide(data.levels[1]) ELSE <<>>,
     asks |-> IF data.hasLevels /\ Len(data.levels) = 2
              THEN FormatSide(data.levels[2]) ELSE <<>>]

ObInit ==
    obLast = [called |-> FALSE,
              data |-> [coin |-> "", time |-> 0, hasLevels |-> FALSE,
                        levels |-> <<>>],
              result |-> [contract |-> contract_info(""), timestamp |-> 0,
                          bids |-> <<>>, asks |-> <<>>]]

\* One l2Book message normalised by the adapter.
FormatOrderbook(data) ==
    /\ obLast' = [called |-> TRUE, data |-> data,
                  result |-> format_orderbook_data(data)]
    /\ UNCHANGED notObVars

ObNext == \E data \in OrderbookMessages : FormatOrderbook(data)

-----------------------------------------------------------------------------
(* Database (store/timescaledb/db.py) fed by the HL adapter (hl.py)        *)

\* asyncpg.create_pool(self.dsn): the pool's default max_size
PoolSize == 10

Tasks == 1..NTasks

\* ---- what the adapter hands to the database

\* trades of the wire format (WsTrade)
WireTrades ==
    { [coin |-> "ETH", time |-> 1000, px |-> "3000", sz |-> "1.5",
       side |-> "B", tid |-> 1],
      [coin |-> "BTC", time |-> 1000, px |-> "3001", sz |-> "0.8",
       side |-> "A", tid |-> 2] }

\* one element of HL._format_trade_data
FormatTrade(trade) ==
    [contract |-> contract_info(trade.coin),
     timestamp |-> trade.time,
     price |-> Float(trade.px),
     qty |-> Float(trade.sz),
     side |-> trade.side,
     tid |-> trade.tid]

\* HL._format_trade_data(message), data = message['data']
format_trade_data(data) == [i \in 1..Len(data) |-> FormatTrade(data[i])]

\* the lists insert_trades is called with
TradeBatches ==
    { format_trade_data(data) : data \in SeqsUpTo(WireTrades, MaxTrades) }

\* candle updates of the wire format for the subscribed (symbol, interval)
CandleUpdates ==
    [t : {100}, o : {"3000"}, h : {"3001"}, l : {"3000"},
     c : {"3000", "3001"}, v : {"1.5"}]
    \cup [t : {200, 300}, o : {"3000"}, h : {"3001"}, l : {"3000"},
          c : {"3001"}, v : {"0.8"}]

CandleContract == [symbol |-> "ETH"]
CandleInterval == "1 min"

\* cache_key = f"{contract['symbol']}-{interval}"
candle_cache_key(contract, interval) == <<contract.symbol, "-", interval>>

\* the intervals subscribed to
CandleIntervals == {"1 min", "5 mins"}

CandleCacheKeys ==
    { candle_cache_key(CandleContract, interval) : interval \in CandleIntervals }

\* current_candle of HL._format_candle_data
CurrentCandle(candle) ==
    [time |-> candle.t, open |-> Float(candle.o), high |-> Float(candle.h),
     low |-> Float(candle.l), close |-> Float(candle.c),
     volume |-> Float(candle.v)]

\* A window from which nothing is ever dropped.
UpdateWindow_NoEviction(candles, current_candle) ==
    IF candles # <<>> /\ candles[Len(candles)].time = current_candle.time
    THEN [candles EXCEPT ![Len(candles)] = current_candle]
    ELSE Append(candles, current_candle)

\* The window after one update: the newest entry replaced when the time is
\* the same, otherwise appended and the oldest dropped beyond two entries.
UpdateWindow(candles, current_candle) ==
    IF candles # <<>> /\ candles[Len(candles)].time = current_candle.time
    THEN [candles EXCEPT ![Len(candles)] = current_candle]
    ELSE LET appended == Append(candles, current_candle)
         IN  IF Len(appended) > 2 THEN Tail(appended) ELSE appended

\* formatted_data of HL._format_candle_data, given the updated window
format_candle_data(candles, contract, interval) ==
    [contract |-> contract_info(contract.symbol),
     interval |-> interval,
     bars |-> candles]

\* ---- get_or_create_contract

\* contract dictionaries the database is asked to resolve
ContractDatas ==
    { contract_info("ETH"), contract_info("BTC"),
      [contract_info("ETH") EXCEPT !.multiplier = PyStr("")] }

\* the records of core.py and variants of them: the perpetual without a
\* multiplier, with the multiplier 1, with the venue's leverage as
\* multiplier, with an empty expiration, and with an expiration, the strike
\* 0 and an empty right
eth_perp ==
    [symbol |-> "ETH", secType |-> "PERP", exchange |-> "HYPERLIQUID",
     currency |-> "USD"]

IdentityDatas ==
    { eth_perp,
      eth_perp @@ [multiplier |-> PyInt("1")],
      eth_perp @@ [multiplier |-> PyInt("25")],
      eth_perp @@ [expiration |-> PyStr("")],
      eth_perp @@ [expiration |-> PyStr("20250620"),
                   strike |-> PyInt("0"), right |-> PyStr("")] }

\* contract_data.get(key)
ContractGet(contract_data, key) ==
    IF key \in DOMAIN contract_data THEN contract_data[key] ELSE PyNone

\* multiplier as normalised at the top of get_or_create_contract
Multiplier(multiplier) ==
    IF multiplier = PyStr("") THEN PyInt("1")
    ELSE IF multiplier = PyNone \/ multiplier = PyInt("0") THEN PyInt("1")
    ELSE multiplier

\* expiration = None if expiration == '' else expiration; right likewise
EmptyToNone(value) == IF value = PyStr("") THEN PyNone ELSE value

\* if strike == '' or strike == 0 or strike is None: strike = None
Strike(strike) ==
    IF strike \in {PyStr(""), PyInt("0"), PyNone} THEN PyNone ELSE strike

\* cache_key: (symbol, secType, exchange, currency, multiplier, expiration,
\* right, strike)
cache_key(contract_data) ==
    <<contract_data.symbol, contract_data.secType, contract_data.exchange,
      contract_data.currency,
      Multiplier(ContractGet(contract_data, "multiplier")),
      EmptyToNone(ContractGet(contract_data, "expiration")),
      EmptyToNone(ContractGet(contract_data, "right")),
      Strike(ContractGet(contract_data, "strike"))>>

ContractKeys == { cache_key(cd) : cd \in ContractDatas \cup IdentityDatas }

\* lock_key = f"contract_lock:{symbol}:{secType}:{exchange}"
lock_key(contract_data) ==
    <<"contract_lock", contract_data.symbol, contract_data.secType,
      contract_data.exchange>>

\* hash() of the process on the lock keys of the model
PyHash(key) ==
    CASE key[2] = "ETH" -> 1201
      [] key[2] = "BTC" -> 77
      [] OTHER -> 5

\* lock_hash = abs(hash(lock_key)) % (2**31 - 1)
lock_hash(contract_data) == PyHash(lock_key(contract_data)) % (2147483647)

\* pg_advisory_xact_lock granted at once although another transaction
\* holds the key
AdvisoryLockAvailable_NoLock(h) == TRUE

\* pg_advisory_xact_lock(h) is granted when no transaction holds h
AdvisoryLockAvailable(h) == \A l \in advisoryLocks : l.key # h

\* a WHERE clause without the comparison of the multiplier
MatchingContracts_IgnoreMultiplier(key) ==
    { i \in 1..Len(contracts) :
        \A n \in (1..8) \ {5} : contracts[i].key[n] = key[n] }

\* rows of `contracts` matched by the WHERE clause of the SELECT
MatchingContracts(key) ==
    { i \in 1..Len(contracts) : contracts[i].key = key }

NoContract ==
    [symbol |-> "", secType |-> "", exchange |-> "", multiplier |-> PyNone,
     currency |-> ""]

\* no order book handed over
NoBook ==
    [contract |-> NoContract, timestamp |-> 0, bids |-> <<>>, asks |-> <<>>]

\* a task (coroutine) that has not called the database
IdleTask ==
    [pc |-> "idle", op |-> "none", contract_data |-> NoContract,
     trades |-> <<>>, bars |-> <<>>, book |-> NoBook, cont |-> "done",
     existing |-> 0,
     contract_id |-> 0, g |-> 1, i |-> 1, pending |-> <<>>, created |-> <<>>]

DbInit ==
    /\ contracts = <<>>
    /\ contractsSeq = 0
    /\ contract_cache = [k \in ContractKeys |-> 0]
    /\ advisoryLocks = {}
    /\ poolFree = PoolSize
    /\ task = [t \in Tasks |-> IdleTask]
    /\ trades = <<>>
    /\ historical_data = <<>>
    /\ candle_cache = [k \in CandleCacheKeys |-> <<>>]
    /\ arrived = {}
    /\ tradesSubmitted = 0

\* A task whose call has ended makes the next call.
CanCall(t) == task[t].pc \in {"idle", "done", "failed"}

\* A lookup that goes to the storage although the id is cached.
get_or_create_contract_NoCache(tk, contract_data, cont) ==
    [tk EXCEPT !.contract_data = contract_data, !.contract_id = 0,
               !.existing = 0, !.cont = cont, !.pc = "goc_acquire"]

\* get_or_create_contract up to its first await: a cached id is returned at
\* once (the caller goes on at cont), otherwise the coroutine waits for a
\* connection of the pool.
get_or_create_contract(tk, contract_data, cont) ==
    LET key == cache_key(contract_data) IN
    IF contract_cache[key] # 0
    THEN [tk EXCEPT !.contract_data = contract_data,
                    !.contract_id = contract_cache[key], !.pc = cont]
    ELSE [tk EXCEPT !.contract_data = contract_data, !.contract_id = 0,
                    !.existing = 0, !.cont = cont, !.pc = "goc_acquire"]

\* A caller awaits get_or_create_contract(contract_data).
GocCall(t, contract_data) ==
    /\ CanCall(t)
    /\ task' = [task EXCEPT ![t] =
                  get_or_create_contract([IdleTask EXCEPT !.op = "contract"],
                                         contract_data, "done")]
    /\ UNCHANGED <<contracts, contractsSeq, contract_cache, advisoryLocks,
                   poolFree, trades, historical_data, candle_cache, arrived,
                   tradesSubmitted>>
    /\ UNCHANGED notDbVars

\* async with self.pool.acquire() as conn: async with conn.transaction():
GocAcquire(t) ==
    /\ task[t].pc = "goc_acquire"
    /\ poolFree > 0
    /\ poolFree' = poolFree - 1
    /\ task' = [task EXCEPT ![t].pc = "goc_lock"]
    /\ UNCHANGED <<contracts, contractsSeq, contract_cache, advisoryLocks,
                   trades, historical_data, candle_cache, arrived,
                   tradesSubmitted>>
    /\ UNCHANGED notDbVars

\* await conn.execute("SELECT pg_advisory_xact_lock(lock_hash)")
GocLock(t) ==
    /\ task[t].pc = "goc_lock"
    /\ AdvisoryLockAvailable(lock_hash(task[t].contract_data))
    /\ advisoryLocks' = advisoryLocks \cup
          { [key |-> lock_hash(task[t].contract_data), owner |-> t] }
    /\ task' = [task EXCEPT ![t].pc = "goc_select"]
    /\ UNCHANGED <<contracts, contractsSeq, contract_cache, poolFree,
                   trades, historical_data, candle_cache, arrived,
                   tradesSubmitted>>
    /\ UNCHANGED notDbVars

\* existing = await conn.fetchrow("SELECT id FROM contracts WHERE ...")
GocSelect(t) ==
    /\ task[t].pc = "goc_select"
    /\ LET matching == MatchingContracts(cache_key(task[t].contract_data))
           first == CHOOSE i \in matching : \A j \in matching : i <= j
       IN
       IF matching # {}
       THEN task' = [task EXCEPT
                       ![t].existing = contracts[first].id,
                       ![t].contract_id = contracts[first].id,
                       ![t].pc = "goc_commit"]
       ELSE task' = [task EXCEPT ![t].pc = "goc_insert"]
    /\ UNCHANGED <<contracts, contractsSeq, contract_cache, advisoryLocks,
                   poolFree, trades, historical_data, candle_cache, arrived,
                   tradesSubmitted>>
    /\ UNCHANGED notDbVars

\* contract_id = await conn.fetchval("INSERT INTO contracts ... RETURNING id")
GocInsert(t) ==
    /\ task[t].pc = "goc_insert"
    /\ contractsSeq' = contractsSeq + 1
    /\ task' = [task EXCEPT
                  ![t].contract_id = contractsSeq + 1,
                  ![t].created =
                      <<[id |-> contractsSeq + 1,
                         key |-> cache_key(task[t].contract_data)]>>,
                  ![t].pc = "goc_commit"]
    /\ UNCHANGED <<contracts, contract_cache, advisoryLocks, poolFree,
                   trades, historical_data, candle_cache, arrived,
                   tradesSubmitted>>
    /\ UNCHANGED notDbVars

\* The transaction block is left: COMMIT makes the row visible and releases
\* the advisory lock.
GocCommit(t) ==
    /\ task[t].pc = "goc_commit"
    /\ contracts' = contracts \o task[t].created
    /\ advisoryLocks' = { l \in advisoryLocks : l.owner # t }
    /\ task' = [task EXCEPT ![t].created = <<>>, ![t].pc = "goc_release"]
    /\ UNCHANGED <<contractsSeq, contract_cache, poolFree, trades,
                   historical_data, candle_cache, arrived, tradesSubmitted>>
    /\ UNCHANGED notDbVars

\* self._contract_cache[cache_key] = contract_id; the acquire block is left
\* (the connection goes back to the pool) and contract_id is returned to
\* the caller.
GocRelease(t) ==
    /\ task[t].pc = "goc_release"
    /\ contract_cache' =
          [contract_cache EXCEPT
             ![cache_key(task[t].contract_data)] = task[t].contract_id]
    /\ poolFree' = poolFree + 1
    /\ task' = [task EXCEPT ![t].pc = task[t].cont]
    /\ UNCHANGED <<contracts, contractsSeq, advisoryLocks, trades,
                   historical_data, candle_cache, arrived, tradesSubmitted>>
    /\ UNCHANGED notDbVars

\* ids of the sequence lost to transactions that were rolled back
MaxFailures == 1

\* A statement of the transaction, or its COMMIT, raises (the server
\* rejects it, the connection is lost): the transaction block rolls back,
\* the acquire block gives the connection back and the exception leaves
\* get_or_create_contract before the cache is written.
GocFail(t) ==
    /\ task[t].pc \in {"goc_lock", "goc_select", "goc_insert", "goc_commit"}
    /\ contractsSeq - Len(contracts) <= MaxFailures
    /\ advisoryLocks' = { l \in advisoryLocks : l.owner # t }
    /\ poolFree' = poolFree + 1
    /\ task' = [task EXCEPT ![t].created = <<>>, ![t].contract_id = 0,
                            ![t].pc = "failed"]
    /\ UNCHANGED <<contracts, contractsSeq, contract_cache, trades,
                   historical_data, candle_cache, arrived, tradesSubmitted>>
    /\ UNCHANGED notDbVars

ContractNext ==
    \E t \in Tasks :
        \/ \E contract_data \in ContractDatas : GocCall(t, contract_data)
        \/ GocAcquire(t)
        \/ GocLock(t)
        \/ GocSelect(t)
        \/ GocInsert(t)
        \/ GocCommit(t)
        \/ GocRelease(t)

\* ---- the upserts

\* datetime.fromtimestamp(ms / 1000.0), in microseconds since the epoch
FromTimestamp(ms) == ms * 1000

\* ON CONFLICT never detected (no unique index on (time, contract_id))
ConflictsWith_Never(rows, row) == FALSE

\* ON CONFLICT (time, contract_id): a row of the table has the same key
ConflictsWith(rows, row) ==
    \E i \in 1..Len(rows) :
        /\ rows[i].time = row.time
        /\ rows[i].contract_id = row.contract_id

\* Transactions of other tasks that hold an uncommitted row with the key of
\* row in the table written by op: the INSERT waits for them.
Blockers(t, op, row) ==
    { u \in Tasks \ {t} :
        /\ task[u].op = op
        /\ ConflictsWith(task[u].pending, row) }

\* INSERT ... ON CONFLICT (time, contract_id) DO NOTHING of one row by the
\* transaction of tk: the pending rows of tk afterwards.
InsertDoNothing(table, tk, row) ==
    IF ConflictsWith(table, row) \/ ConflictsWith(tk.pending, row)
    THEN tk.pending
    ELSE Append(tk.pending, row)

\* trades_by_contract: the contracts of the batch in order of first
\* appearance, and the trades of one contract
ContractsOf(batch) ==
    LET IsFirst(i) == \A j \in 1..(i - 1) : batch[j].contract # batch[i].contract
        firsts == SelectSeq([i \in 1..Len(batch) |-> i], IsFirst)
    IN  [n \in 1..Len(firsts) |-> batch[firsts[n]].contract]

TradesOfContract(batch, contract) ==
    LET Same(trade) == trade.contract = contract
    IN  SelectSeq(batch, Same)

\* contract_trades of the group the task works on
ContractTrades(tk) == TradesOfContract(tk.trades, ContractsOf(tk.trades)[tk.g])

\* one tuple of values in insert_trades
TradeValues(trade, contract_id) ==
    [time |-> FromTimestamp(trade.timestamp),
     contract_id |-> contract_id,
     price |-> trade.price,
     quantity |-> trade.qty,
     side |-> trade.side,
     trade_id |-> trade.tid]

\* insert_trades or insert_candles has ended (returned, or raised): of the
\* coroutine only the argument it was called with is remembered.
Returned(tk, how) ==
    [IdleTask EXCEPT !.op = tk.op, !.trades = tk.trades, !.bars = tk.bars,
                     !.book = tk.book, !.pc = how]

\* The callback awaits insert_trades(trades); every task delivers one list.
InsertTradesCall(t, batch) ==
    /\ task[t].pc = "idle"
    /\ tradesSubmitted + Len(batch) <= MaxTrades
    /\ tradesSubmitted' = tradesSubmitted + Len(batch)
    /\ task' = [task EXCEPT ![t] =
                  IF batch = <<>>
                  THEN [IdleTask EXCEPT !.op = "trades", !.pc = "done"]
                  ELSE [IdleTask EXCEPT !.op = "trades", !.trades = batch,
                                        !.pc = "tr_acquire"]]
    /\ UNCHANGED <<contracts, contractsSeq, contract_cache, advisoryLocks,
                   poolFree, trades, historical_data, candle_cache, arrived>>
    /\ UNCHANGED notDbVars

\* The loop body up to its first await, for the group tk.g:
\* contract_id = await self.get_or_create_contract(contract_trades[0]['contract'])
ResolveGroup(tk) ==
    get_or_create_contract([tk EXCEPT !.i = 1],
                           ContractTrades(tk)[1].contract, "tr_exec")

\* async with self.pool.acquire() as conn: async with conn.transaction():
\* and the loop over the groups is entered
TrAcquire(t) ==
    /\ task[t].pc = "tr_acquire"
    /\ poolFree > 0
    /\ poolFree' = poolFree - 1
    /\ task' = [task EXCEPT ![t] = ResolveGroup(task[t])]
    /\ UNCHANGED <<contracts, contractsSeq, contract_cache, advisoryLocks,
                   trades, historical_data, candle_cache, arrived,
                   tradesSubmitted>>
    /\ UNCHANGED notDbVars

\* await conn.executemany(INSERT INTO trades ...): the next tuple of values;
\* after the last one the loop goes on with the next group or ends.
TrExec(t) ==
    /\ task[t].pc = "tr_exec"
    /\ LET group == ContractTrades(task[t])
           row == TradeValues(group[task[t].i], task[t].contract_id)
           last == task[t].i = Len(group)
           more == task[t].g < Len(ContractsOf(task[t].trades))
           after == [task[t] EXCEPT
                       !.pending = InsertDoNothing(trades, task[t], row)]
       IN  /\ Blockers(t, "trades", row) = {}
           /\ task' = [task EXCEPT ![t] =
                         IF ~last THEN [after EXCEPT !.i = task[t].i + 1]
                         ELSE IF more
                         THEN ResolveGroup([after EXCEPT !.g = task[t].g + 1])
                         ELSE [after EXCEPT !.pc = "tr_commit"]]
    /\ UNCHANGED <<contracts, contractsSeq, contract_cache, advisoryLocks,
                   poolFree, trades, historical_data, candle_cache, arrived,
                   tradesSubmitted>>
    /\ UNCHANGED notDbVars

\* Two transactions wait for each other's uncommitted row: the server ends
\* one of them with a deadlock error, insert_trades raises, the transaction
\* is rolled back and the connection released.
TrDeadlock(t) ==
    /\ task[t].pc = "tr_exec"
    /\ LET Row(u) == TradeValues(ContractTrades(task[u])[task[u].i],
                                 task[u].contract_id)
       IN  \E u \in Blockers(t, "trades", Row(t)) :
               /\ task[u].pc = "tr_exec"
               /\ t \in Blockers(u, "trades", Row(u))
    /\ poolFree' = poolFree + 1
    /\ task' = [task EXCEPT ![t] = Returned(task[t], "failed")]
    /\ UNCHANGED <<contracts, contractsSeq, contract_cache, advisoryLocks,
                   trades, historical_data, candle_cache, arrived,
                   tradesSubmitted>>
    /\ UNCHANGED notDbVars

\* Both blocks are left: COMMIT, the connection released, the call returns.
TrCommit(t) ==
    /\ task[t].pc = "tr_commit"
    /\ trades' = trades \o task[t].pending
    /\ poolFree' = poolFree + 1
    /\ task' = [task EXCEPT ![t] = Returned(task[t], "done")]
    /\ UNCHANGED <<contracts, contractsSeq, contract_cache, advisoryLocks,
                   historical_data, candle_cache, arrived,
                   tradesSubmitted>>
    /\ UNCHANGED notDbVars

TradesNext ==
    \E t \in Tasks :
        \/ \E batch \in TradeBatches : InsertTradesCall(t, batch)
        \/ TrAcquire(t)
        \/ TrExec(t)
        \/ TrDeadlock(t)
        \/ TrCommit(t)
        \/ GocAcquire(t)
        \/ GocLock(t)
        \/ GocSelect(t)
        \/ GocInsert(t)
        \/ GocCommit(t)
        \/ GocRelease(t)

\* completed_bars = bars[:-1] if len(bars) > 1 else bars
completed_bars(bars) ==
    IF Len(bars) > 1 THEN SubSeq(bars, 1, Len(bars) - 1) ELSE bars

\* datetime.fromtimestamp(ms / 1000.0, tz=timezone.utc)
FromTimestampUtc(ms) == ms * 1000

\* one tuple of values in insert_candles
BarValues(bar, contract_id) ==
    [time |-> FromTimestampUtc(bar.time),
     contract_id |-> contract_id,
     open |-> bar.open, high |-> bar.high, low |-> bar.low,
     close |-> bar.close,
     volume |-> IF bar.volume >= 0 THEN bar.volume ELSE 0]

\* forward_data(message) of subscribe_candles: the update goes through
\* _format_candle_data and the result is handed to insert_candles, which
\* returns at once when there are no bars.
ForwardCandle(t, candle) ==
    /\ CanCall(t)
    /\ LET key == candle_cache_key(CandleContract, CandleInterval)
           candles == UpdateWindow(candle_cache[key], CurrentCandle(candle))
           data == format_candle_data(candles, CandleContract, CandleInterval)
       IN  /\ candle_cache' = [candle_cache EXCEPT ![key] = candles]
           /\ task' = [task EXCEPT ![t] =
                         IF data.bars = <<>>
                         THEN [IdleTask EXCEPT !.op = "candles", !.pc = "done"]
                         ELSE [IdleTask EXCEPT !.op = "candles",
                                               !.contract_data = data.contract,
                                               !.bars = data.bars,
                                               !.pc = "cd_acquire"]]
    /\ arrived' = arrived \cup {candle.t}
    /\ UNCHANGED <<contracts, contractsSeq, contract_cache, advisoryLocks,
                   poolFree, trades, historical_data, tradesSubmitted>>
    /\ UNCHANGED notDbVars

\* async with self.pool.acquire() as conn: async with conn.transaction():
\* contract_id = await self.get_or_create_contract(candle_data['contract'])
CdAcquire(t) ==
    /\ task[t].pc = "cd_acquire"
    /\ poolFree > 0
    /\ poolFree' = poolFree - 1
    /\ task' = [task EXCEPT ![t] =
                  get_or_create_contract([task[t] EXCEPT !.i = 1],
                                         task[t].contract_data, "cd_exec")]
    /\ UNCHANGED <<contracts, contractsSeq, contract_cache, advisoryLocks,
                   trades, historical_data, candle_cache, arrived,
                   tradesSubmitted>>
    /\ UNCHANGED notDbVars

\* await conn.executemany(INSERT INTO historical_data ...): the next tuple
CdExec(t) ==
    /\ task[t].pc = "cd_exec"
    /\ LET completed == completed_bars(task[t].bars)
           row == BarValues(completed[task[t].i], task[t].contract_id)
           last == task[t].i = Len(completed)
       IN  /\ Blockers(t, "candles", row) = {}
           /\ task' = [task EXCEPT
                         ![t].pending =
                             InsertDoNothing(historical_data, task[t], row),
                         ![t].i = IF last THEN 1 ELSE task[t].i + 1,
                         ![t].pc = IF last THEN "cd_commit" ELSE "cd_exec"]
    /\ UNCHANGED <<contracts, contractsSeq, contract_cache, advisoryLocks,
                   poolFree, trades, historical_data, candle_cache, arrived,
                   tradesSubmitted>>
    /\ UNCHANGED notDbVars

\* Both blocks are left: COMMIT, the connection released, the call returns.
CdCommit(t) ==
    /\ task[t].pc = "cd_commit"
    /\ historical_data' = historical_data \o task[t].pending
    /\ poolFree' = poolFree + 1
    /\ task' = [task EXCEPT ![t] = Returned(task[t], "done")]
    /\ UNCHANGED <<contracts, contractsSeq, contract_cache, advisoryLocks,
                   trades, candle_cache, arrived,
                   tradesSubmitted>>
    /\ UNCHANGED notDbVars

CandleNext ==
    \E t \in Tasks :
        \/ \E candle \in CandleUpdates : ForwardCandle(t, candle)
        \/ CdAcquire(t)
        \/ CdExec(t)
        \/ CdCommit(t)
        \/ GocAcquire(t)
        \/ GocLock(t)
        \/ GocSelect(t)
        \/ GocInsert(t)
        \/ GocCommit(t)
        \/ GocRelease(t)

\* ---- insert_orderbook

\* the l2Book messages whose snapshots reach the database: one coin, one
\* time, one level on each side
BookMessages ==
    { [coin |-> "ETH", time |-> 1000, hasLevels |-> TRUE,
       levels |-> <<<<b>>, <<a>>>>] : b \in WireLevels, a \in WireLevels }

BookSnapshots == { format_orderbook_data(m) : m \in BookMessages }

BookInit ==
    /\ orderbook_snapshots = <<>>
    /\ firstLevels = <<>>

\* bid_values or ask_values: level is the position in the list, from 0
SideValues(timestamp, contract_id, side, levels) ==
    [k \in 1..Len(levels) |->
        [time |-> timestamp, contract_id |-> contract_id, side |-> side,
         price |-> levels[k].price, quantity |-> levels[k].qty,
         orders |-> levels[k].orders, level |-> k - 1]]

\* values = bid_values + ask_values
BookValues(orderbook_data, contract_id) ==
    LET timestamp == FromTimestampUtc(orderbook_data.timestamp) IN
    SideValues(timestamp, contract_id, "bid", orderbook_data.bids)
        \o SideValues(timestamp, contract_id, "ask", orderbook_data.asks)

\* ON CONFLICT (time, contract_id, side, level)
SameLevel(r, row) ==
    /\ r.time = row.time
    /\ r.contract_id = row.contract_id
    /\ r.side = row.side
    /\ r.level = row.level

HasLevel(rows, row) == \E k \in 1..Len(rows) : SameLevel(rows[k], row)

\* DO UPDATE SET price = $4, quantity = $5, orders = $6
DoUpdate(rows, row) ==
    [k \in 1..Len(rows) |->
        IF SameLevel(rows[k], row)
        THEN [rows[k] EXCEPT !.price = row.price, !.quantity = row.quantity,
                             !.orders = row.orders]
        ELSE rows[k]]

\* INSERT ... ON CONFLICT (time, contract_id, side, level) DO UPDATE of one
\* row on the rows given
Upsert(rows, row) ==
    IF HasLevel(rows, row) THEN DoUpdate(rows, row) ELSE Append(rows, row)

\* The rows of the transaction applied to the table at COMMIT.
RECURSIVE ApplyUpserts(_, _)
ApplyUpserts(rows, pending) ==
    IF pending = <<>> THEN rows
    ELSE ApplyUpserts(Upsert(rows, Head(pending)), Tail(pending))

\* The rows of the transaction whose key the table did not hold.
NewLevels(rows, pending) ==
    LET IsNew(row) == ~HasLevel(rows, row) IN SelectSeq(pending, IsNew)

\* Transactions of other tasks that hold an uncommitted row for the level.
LevelBlockers(t, row) ==
    { u \in Tasks \ {t} :
        /\ task[u].op = "orderbook"
        /\ HasLevel(task[u].pending, row) }

\* The callback awaits insert_orderbook(orderbook_data).
InsertOrderbookCall(t, orderbook_data) ==
    /\ CanCall(t)
    /\ task' = [task EXCEPT ![t] =
                  [IdleTask EXCEPT !.op = "orderbook", !.book = orderbook_data,
                                   !.pc = "obk_acquire"]]
    /\ UNCHANGED <<contracts, contractsSeq, contract_cache, advisoryLocks,
                   poolFree, trades, historical_data, candle_cache, arrived,
                   tradesSubmitted>>
    /\ UNCHANGED bookVars
    /\ UNCHANGED notBookVars

\* async with self.pool.acquire() as conn: async with conn.transaction():
\* contract_id = await self.get_or_create_contract(orderbook_data['contract'])
ObkAcquire(t) ==
    /\ task[t].pc = "obk_acquire"
    /\ poolFree > 0
    /\ poolFree' = poolFree - 1
    /\ task' = [task EXCEPT ![t] =
                  get_or_create_contract([task[t] EXCEPT !.i = 1],
                                         task[t].book.contract, "obk_exec")]
    /\ UNCHANGED <<contracts, contractsSeq, contract_cache, advisoryLocks,
                   trades, historical_data, candle_cache, arrived,
                   tradesSubmitted>>
    /\ UNCHANGED bookVars
    /\ UNCHANGED notBookVars

\* await conn.executemany(INSERT INTO orderbook_snapshots ...): the next
\* tuple of values (none when both sides are empty)
ObkExec(t) ==
    /\ task[t].pc = "obk_exec"
    /\ LET values == BookValues(task[t].book, task[t].contract_id) IN
       IF values = <<>>
       THEN task' = [task EXCEPT ![t].pc = "obk_commit"]
       ELSE LET row == values[task[t].i] IN
            /\ LevelBlockers(t, row) = {}
            /\ task' = [task EXCEPT
                          ![t].pending = Upsert(task[t].pending, row),
                          ![t].i = IF task[t].i = Len(values) THEN 1
                                   ELSE task[t].i + 1,
                          ![t].pc = IF task[t].i = Len(values)
                                    THEN "obk_commit" ELSE "obk_exec"]
    /\ UNCHANGED <<contracts, contractsSeq, contract_cache, advisoryLocks,
                   poolFree, trades, historical_data, candle_cache, arrived,
                   tradesSubmitted>>
    /\ UNCHANGED bookVars
    /\ UNCHANGED notBookVars

\* Both blocks are left: COMMIT, the connection released, the call returns.
ObkCommit(t) ==
    /\ task[t].pc = "obk_commit"
    /\ orderbook_snapshots' = ApplyUpserts(orderbook_snapshots, task[t].pending)
    /\ firstLevels' = firstLevels \o NewLevels(orderbook_snapshots, task[t].pending)
    /\ poolFree' = poolFree + 1
    /\ task' = [task EXCEPT ![t] = Returned(task[t], "done")]
    /\ UNCHANGED <<contracts, contractsSeq, contract_cache, advisoryLocks,
                   trades, historical_data, candle_cache, arrived,
                   tradesSubmitted>>
    /\ UNCHANGED notBookVars

BookNext ==
    \E t \in Tasks :
        \/ \E orderbook_data \in BookSnapshots : InsertOrderbookCall(t, orderbook_data)
        \/ ObkAcquire(t)
        \/ ObkExec(t)
        \/ ObkCommit(t)
        \/ GocAcquire(t)
        \/ GocLock(t)
        \/ GocSelect(t)
        \/ GocInsert(t)
        \/ GocCommit(t)
        \/ GocRelease(t)

-----------------------------------------------------------------------------
(* Stream.subscribe_all (stream.py) over HL.subscribe_* (hl.py)            *)

\* the coroutines gathered by subscribe_all
StreamTypes == {"trades", "orderbook", "candles"}

\* the exchanges registered with add_exchanges, and the names asked for
Exchanges == {"hyperliquid"}
ExchangeNames == {"hyperliquid", "unknown"}

\* What Info.subscribe does for one subscription: the frame is queued or
\* sent, or the call raises: the coin is not in name_to_coin (KeyError),
\* the adapter is not connected and self.info is None (AttributeError), the
\* send fails on the connection (ConnectionClosed). "NoSymbol" is a contract
\* without the key 'symbol': HL.subscribe_<k> raises KeyError before its try.
VenueCalls ==
    {"queued", "sent", "KeyError", "AttributeError", "ConnectionClosed",
     "NoSymbol"}

\* the outcomes that are exceptions
IsRaise(call) ==
    call \in {"KeyError", "AttributeError", "ConnectionClosed", "NoSymbol"}

\* the exception an outcome raises
ExcOf(call) == IF call = "NoSymbol" THEN "KeyError" ELSE call

\* the outcomes of Info.subscribe that end at the awaited send
AtSend(call) == call \in {"sent", "ConnectionClosed"}

\* an "except Exception" clause that lets every exception through
ExceptException_CatchesNothing(exc) == FALSE

\* "except Exception": the exceptions of the model are all subclasses
ExceptException(exc) ==
    exc \in {"KeyError", "AttributeError", "ConnectionClosed",
             "NotImplementedError", "RuntimeError"}

FanInit ==
    /\ saPc = "idle"
    /\ stPc = [k \in StreamTypes |-> "none"]
    /\ stOutcome = [k \in StreamTypes |-> "none"]
    /\ stExc = [k \in StreamTypes |-> "none"]
    /\ fanLog = {}

\* An exception raised in HL.subscribe_<k>, as it passes the handler of
\* HL.subscribe_<k> (when raised inside its try) and then the handler of
\* Stream.subscribe_<k>: where it is logged, and whether the coroutine of
\* the stream returns or raises.
Unwind(k, call) ==
    IF call # "NoSymbol" /\ ExceptException(ExcOf(call))
    THEN [pc |-> "returned", log |-> {<<"hl", k, ExcOf(call)>>}]
    ELSE IF ExceptException(ExcOf(call))
    THEN [pc |-> "returned", log |-> {<<"stream", k, ExcOf(call)>>}]
    ELSE [pc |-> "raised", log |-> {}]

\* subscribe_all(exchange, contract): an unknown exchange is logged and the
\* call returns; otherwise the three coroutines are handed to gather.
SubscribeAllCall(exchange) ==
    /\ saPc = "idle"
    /\ IF exchange \in Exchanges
       THEN /\ saPc' = "gather"
            /\ stPc' = [k \in StreamTypes |-> "created"]
            /\ UNCHANGED fanLog
       ELSE /\ saPc' = "returned"
            /\ fanLog' = fanLog \cup {<<"stream", "all", "not found">>}
            /\ UNCHANGED stPc
    /\ UNCHANGED <<stOutcome, stExc>>
    /\ UNCHANGED notFanVars

\* Stream.subscribe_<k> runs: HL.subscribe_<k> awaits Info.subscribe, which
\* returns or raises at once, or is suspended in the send.
StreamSubscribe(k, call) ==
    /\ stPc[k] = "created"
    /\ stOutcome' = [stOutcome EXCEPT ![k] = call]
    /\ IF AtSend(call)
       THEN /\ stPc' = [stPc EXCEPT ![k] = "sending"]
            /\ UNCHANGED <<stExc, fanLog>>
       ELSE IF IsRaise(call)
       THEN /\ stPc' = [stPc EXCEPT ![k] = Unwind(k, call).pc]
            /\ stExc' = [stExc EXCEPT ![k] =
                           IF Unwind(k, call).pc = "raised"
                           THEN ExcOf(call) ELSE "none"]
            /\ fanLog' = fanLog \cup Unwind(k, call).log
       ELSE /\ stPc' = [stPc EXCEPT ![k] = "returned"]
            /\ UNCHANGED <<stExc, fanLog>>
    /\ UNCHANGED saPc
    /\ UNCHANGED notFanVars

\* the send awaited inside Info.subscribe returns or raises
StreamSendDone(k) ==
    /\ stPc[k] = "sending"
    /\ IF IsRaise(stOutcome[k])
       THEN /\ stPc' = [stPc EXCEPT ![k] = Unwind(k, stOutcome[k]).pc]
            /\ stExc' = [stExc EXCEPT ![k] =
                           IF Unwind(k, stOutcome[k]).pc = "raised"
                           THEN ExcOf(stOutcome[k]) ELSE "none"]
            /\ fanLog' = fanLog \cup Unwind(k, stOutcome[k]).log
       ELSE /\ stPc' = [stPc EXCEPT ![k] = "returned"]
            /\ UNCHANGED <<stExc, fanLog>>
    /\ UNCHANGED <<saPc, stOutcome>>
    /\ UNCHANGED notFanVars

\* await asyncio.gather(*tasks): every coroutine has returned, or one has
\* raised and its exception reaches the handler of subscribe_all.
GatherDone ==
    /\ saPc = "gather"
    /\ IF \E k \in StreamTypes : stPc[k] = "raised"
       THEN LET k == CHOOSE j \in StreamTypes : stPc[j] = "raised" IN
            IF ExceptException(stExc[k])
            THEN /\ saPc' = "returned"
                 /\ fanLog' = fanLog \cup {<<"stream", "all", stExc[k]>>}
            ELSE /\ saPc' = "raised"
                 /\ UNCHANGED fanLog
       ELSE /\ \A k \in StreamTypes : stPc[k] = "returned"
            /\ saPc' = "returned"
            /\ UNCHANGED fanLog
    /\ UNCHANGED <<stPc, stOutcome, stExc>>
    /\ UNCHANGED notFanVars

FanNext ==
    \/ \E exchange \in ExchangeNames : SubscribeAllCall(exchange)
    \/ \E k \in StreamTypes, call \in VenueCalls : StreamSubscribe(k, call)
    \/ \E k \in StreamTypes : StreamSendDone(k)
    \/ GatherDone

-----------------------------------------------------------------------------
(* forward_data (hl.py) -> Stream._<k>_callback (stream.py) -> Database     *)

\* frames forwarded per stream
MaxFrames == 2

\* how a call of Database.insert_<k> ends: it returns, or it raises (the
\* pool was never opened, the server rejects the statement, the connection
\* to the server is lost)
InsertOutcomes ==
    {"ok", "AttributeError", "PostgresError", "ConnectionDoesNotExistError"}

\* The frames of the call stack under forward_data, innermost last, and the
\* exceptions each of them catches: none has a try statement.
CallbackStack == <<"forward_data", "_callback", "insert">>

Catches(frame, exc) == FALSE

\* the outermost frame of the stack that an exception raised in
\* Database.insert_<k> reaches: 0 when it leaves forward_data
RECURSIVE CaughtAt(_, _)
CaughtAt(i, exc) ==
    IF i = 0 THEN 0
    ELSE IF Catches(CallbackStack[i], exc) THEN i
    ELSE CaughtAt(i - 1, exc)

CbInit ==
    /\ fwPc = [k \in StreamTypes |-> "idle"]
    /\ fwExc = [k \in StreamTypes |-> "none"]
    /\ cbFrames = [k \in StreamTypes |-> 0]
    /\ cbStored = [k \in StreamTypes |-> 0]

\* forward_data(message): the message is formatted and the callback of the
\* stream is awaited, which awaits Database.insert_<k>
ForwardData(k) ==
    /\ fwPc[k] \in {"idle", "returned", "raised"}
    /\ cbFrames[k] < MaxFrames
    /\ fwPc' = [fwPc EXCEPT ![k] = "insert"]
    /\ fwExc' = [fwExc EXCEPT ![k] = "none"]
    /\ cbFrames' = [cbFrames EXCEPT ![k] = @ + 1]
    /\ UNCHANGED cbStored
    /\ UNCHANGED notCbVars

\* Database.insert_<k> ends; an exception unwinds the stack
InsertEnds(k, outcome) ==
    /\ fwPc[k] = "insert"
    /\ IF outcome = "ok"
       THEN /\ fwPc' = [fwPc EXCEPT ![k] = "returned"]
            /\ cbStored' = [cbStored EXCEPT ![k] = @ + 1]
            /\ UNCHANGED fwExc
       ELSE /\ fwPc' = [fwPc EXCEPT ![k] =
                          IF CaughtAt(Len(CallbackStack), outcome) = 0
                          THEN "raised" ELSE "returned"]
            /\ fwExc' = [fwExc EXCEPT ![k] =
                          IF CaughtAt(Len(CallbackStack), outcome) = 0
                          THEN outcome ELSE "none"]
            /\ UNCHANGED cbStored
    /\ UNCHANGED cbFrames
    /\ UNCHANGED notCbVars

CbNext ==
    \/ \E k \in StreamTypes : ForwardData(k)
    \/ \E k \in StreamTypes, outcome \in InsertOutcomes : InsertEnds(k, outcome)

-----------------------------------------------------------------------------
(* HL.connectAsync and HL._setup (hl.py)                                   *)

\* account.address of the signing key of the config
KeyAddress == "0xAb"

\* config["public"]: empty, the key's address, the same in lower case,
\* another account; config["vault"]
ConfigPublics == {"", "0xAb", "0xab", "0xCd"}
ConfigVaults == {"", "0xVa"}
Configs == [public : ConfigPublics, vault : ConfigVaults]

\* user_state["marginSummary"]["accountValue"] and
\* spot_user_state["balances"] as the venue reports them
AccountValues == {"0", "0.0", "12.5"}
SpotBalances ==
    { <<>>,
      << [coin |-> "USDC", total |-> "0.0"] >>,
      << [coin |-> "USDC", total |-> "12.5"] >> }

\* how an awaited request to the venue ends
PostOutcomes == {"ok", "err", "ClientError"}

NoCfg == [public |-> "none", vault |-> "none"]
NoUser == [accountValue |-> "none", balances |-> <<>>]

HlInit ==
    /\ hlPc = "idle"
    /\ hlCfg = NoCfg
    /\ hlUser = NoUser
    /\ hlInfo = "None"
    /\ hlExchange = "None"
    /\ hlAddress = "None"
    /\ hlPosted = <<>>
    /\ hlClients = <<>>
    /\ hlExc = "none"
    /\ hlSigned = <<>>
    /\ hlSessions = {}
    /\ hlWallet = "None"
    /\ hlInitialized = {}

\* _setup: the address of the account
SetupAddress(cfg) == IF cfg.public = "" THEN KeyAddress ELSE cfg.public

\* _setup: "the provided account has no equity"
NoEquity(accountValue, balances) ==
    Float(accountValue) = 0 /\ Len(balances) = 0

\* connectAsync: a check that lets an agent key through
IsAgent_Never(account_address, wallet_address) == FALSE

\* connectAsync: exchange.account_address != exchange.wallet.address
IsAgent(account_address, wallet_address) == account_address # wallet_address

\* Exchange.shutdown of a client that closes no session
ShutdownCloses_Nothing(client, initialized) == {}

\* Exchange.shutdown: the sessions it closes, those of the client's Info
\* and of the client itself
ShutdownCloses(client, initialized) ==
    IF client \in initialized THEN {client \o ".info", client} ELSE {}

HlRaise(exc) ==
    /\ hlPc' = "raised"
    /\ hlExc' = exc

\* connectAsync(config) up to the first await of _setup
ConnectAsync(cfg) ==
    /\ hlPc = "idle"
    /\ hlCfg' = cfg
    /\ hlPc' = "user_state"
    /\ UNCHANGED <<hlUser, hlInfo, hlExchange, hlAddress, hlPosted, hlClients, hlExc>>
    /\ UNCHANGED <<hlSigned, hlSessions, hlWallet, hlInitialized>>
    /\ UNCHANGED notHlVars

\* await info.user_state(address)
UserState(accountValue, outcome) ==
    /\ hlPc = "user_state"
    /\ IF outcome = "ClientError"
       THEN /\ HlRaise("ClientError")
            /\ UNCHANGED hlUser
       ELSE /\ hlUser' = [hlUser EXCEPT !.accountValue = accountValue]
            /\ hlPc' = "spot_user_state"
            /\ UNCHANGED hlExc
    /\ hlSessions' = hlSessions \cup {"info"}
    /\ UNCHANGED <<hlSigned, hlWallet, hlInitialized>>
    /\ UNCHANGED <<hlCfg, hlInfo, hlExchange, hlAddress, hlPosted, hlClients>>
    /\ UNCHANGED notHlVars

\* await info.spot_user_state(address), the equity check, the signed client
\* of _setup, the agent check, and approve_agent up to its first await
SpotUserState(balances, outcome) ==
    /\ hlPc = "spot_user_state"
    /\ IF outcome = "ClientError"
       THEN /\ HlRaise("ClientError")
            /\ UNCHANGED <<hlUser, hlClients>>
       ELSE /\ hlUser' = [hlUser EXCEPT !.balances = balances]
            /\ IF NoEquity(hlUser.accountValue, balances)
               THEN /\ HlRaise("No accountValue")
                    /\ UNCHANGED hlClients
               ELSE /\ hlClients' = Append(hlClients, "account")
                    /\ IF IsAgent(SetupAddress(hlCfg), KeyAddress)
                       THEN HlRaise("You should not create an agent using an agent")
                       ELSE /\ hlPc' = "approve_initialize"
                            /\ UNCHANGED hlExc
    /\ UNCHANGED <<hlSigned, hlSessions, hlWallet, hlInitialized>>
    /\ UNCHANGED <<hlCfg, hlInfo, hlExchange, hlAddress, hlPosted>>
    /\ UNCHANGED notHlVars

\* approve_agent: await self.initialize(), then the action is signed and
\* posted
ApproveInitialized(outcome) ==
    /\ hlPc = "approve_initialize"
    /\ outcome # "err"
    /\ IF outcome = "ClientError"
       THEN /\ HlRaise("ClientError")
            /\ hlSessions' = hlSessions \cup {"account.info"}
            /\ UNCHANGED <<hlPosted, hlSigned, hlInitialized>>
       ELSE /\ hlPosted' = Append(hlPosted, "approveAgent")
            /\ hlInitialized' = hlInitialized \cup {"account"}
            /\ hlSigned' = Append(hlSigned, [wallet |-> "account",
                                             action |-> "approveAgent"])
            /\ hlSessions' = hlSessions \cup {"account.info", "account"}
            /\ hlPc' = "approve_post"
            /\ UNCHANGED hlExc
    /\ UNCHANGED hlWallet
    /\ UNCHANGED <<hlCfg, hlUser, hlInfo, hlExchange, hlAddress, hlClients>>
    /\ UNCHANGED notHlVars

\* the venue answers the approval; on "ok" the agent's client is created
\* and the handles are set
ApproveAnswered(outcome) ==
    /\ hlPc = "approve_post"
    /\ IF outcome = "ClientError"
       THEN /\ HlRaise("ClientError")
            /\ UNCHANGED <<hlInfo, hlExchange, hlAddress, hlClients, hlWallet>>
       ELSE IF outcome # "ok"
       THEN /\ hlPc' = "returned"
            /\ UNCHANGED <<hlInfo, hlExchange, hlAddress, hlClients, hlExc,
                           hlWallet>>
       ELSE /\ hlClients' = Append(hlClients, "agent")
            /\ hlWallet' = "agent"
            /\ hlAddress' = IF hlCfg.vault # "" THEN hlCfg.vault
                            ELSE SetupAddress(hlCfg)
            /\ hlInfo' = "info"
            /\ hlExchange' = "agent_exchange"
            /\ hlPc' = "initialize"
            /\ UNCHANGED hlExc
    /\ UNCHANGED <<hlCfg, hlUser, hlPosted, hlSigned, hlSessions, hlInitialized>>
    /\ UNCHANGED notHlVars

\* await self.info.initialize(); await self.exchange.initialize();
\* await exchange.shutdown()
Initialized(outcome) ==
    /\ hlPc = "initialize"
    /\ outcome # "err"
    /\ IF outcome = "ClientError"
       THEN /\ HlRaise("ClientError")
            /\ UNCHANGED <<hlSessions, hlInitialized>>
       ELSE /\ hlPc' = "returned"
            /\ hlInitialized' = hlInitialized \cup {"info", "agent"}
            /\ hlSessions' =
                  (hlSessions \cup {"agent.info"})
                      \ ShutdownCloses("account", hlInitialized)
            /\ UNCHANGED hlExc
    /\ UNCHANGED <<hlSigned, hlWallet>>
    /\ UNCHANGED <<hlCfg, hlUser, hlInfo, hlExchange, hlAddress, hlPosted, hlClients>>
    /\ UNCHANGED notHlVars

HlNext ==
    \/ \E cfg \in Configs : ConnectAsync(cfg)
    \/ \E accountValue \in AccountValues, outcome \in PostOutcomes :
           UserState(accountValue, outcome)
    \/ \E balances \in SpotBalances, outcome \in PostOutcomes :
           SpotUserState(balances, outcome)
    \/ \E outcome \in PostOutcomes : ApproveInitialized(outcome)
    \/ \E outcome \in PostOutcomes : ApproveAnswered(outcome)
    \/ \E outcome \in PostOutcomes : Initialized(outcome)

-----------------------------------------------------------------------------
(* Database.insert_news_item (db.py)                                       *)

\* calls of insert_news_item, steps of the clock
MaxNewsCalls == 2
MaxTicks == 1

\* INTERVAL '24 hours', in hours
DedupWindow == 24

\* the server's clock when the program starts, and the hours of one step
StartNow == 48
TickHours == 12

\* A body is its first 200 characters (head) and the rest (tail).
Contents ==
    { [head |-> "", tail |-> ""],
      [head |-> "a", tail |-> ""],
      [head |-> "a", tail |-> "x"] }

\* hashlib.md5 of the encoded sample, as a number below 2**63
Md5(sample) == CASE sample = "a" -> 11 [] sample = "b" -> 12

\* stable_hash(text)
stable_hash(text) ==
    IF text.head = "" /\ text.tail = "" THEN 0 ELSE Md5(text.head)

\* _format_category_name(name)
format_category_name(name) ==
    CASE name = "fed" -> "Fed"
      [] name = "Fed" -> "Fed"
      [] name = "interest-rate" -> "Interest Rate"

\* news_data: the timestamps are hours, one older than the window at the
\* start of the program and one inside it
NewsData ==
    [category : {"fed", "Fed"}, item : {"", "interest-rate"},
     timestamp : {10, 47}, content : Contents]

NewsTasks == 1..NTasks

IdleNews ==
    [pc |-> "idle", news_data |-> <<>>, main_cat_id |-> 0, category_id |-> 0,
     result |-> "none"]

NewsInit ==
    /\ news_items = <<>>
    /\ news_categories = <<>>
    /\ newsTask = [t \in NewsTasks |-> IdleNews]
    /\ now = StartNow
    /\ newsCalls = 0
    /\ firstNewsCall = 0

\* SELECT id FROM news_categories WHERE name = $1 [AND parent_id = $2]:
\* 0 when there is no such row
CategoryId(name, parent_id) ==
    LET ids == { i \in 1..Len(news_categories) :
                   /\ news_categories[i].name = name
                   /\ news_categories[i].parent_id = parent_id }
    IN  IF ids = {} THEN 0 ELSE CHOOSE i \in ids : \A j \in ids : i <= j

\* SELECT id FROM news_categories WHERE name = $1: the first row with the
\* name, whatever its parent (rows are never updated or deleted and are
\* read in the order of their insertion); 0 when there is no such row
MainCategoryId(name) ==
    LET ids == { i \in 1..Len(news_categories) : news_categories[i].name = name }
    IN  IF ids = {} THEN 0 ELSE CHOOSE i \in ids : \A j \in ids : i <= j

\* time > NOW() - INTERVAL '24 hours'
InWindow(time) == time > now - DedupWindow

\* SELECT 1 FROM news_items WHERE category_id = $1 AND content_hash = $2
\* AND time > NOW() - INTERVAL '24 hours' LIMIT 1
existing_news(category_id, content_hash) ==
    \E i \in 1..Len(news_items) :
        /\ news_items[i].category_id = category_id
        /\ news_items[i].content_hash = content_hash
        /\ InWindow(news_items[i].time)

\* _get_or_create_category has the category id: the next query is the
\* subcategory's, or the duplicate check
AfterMain(t, main_cat_id) ==
    IF newsTask[t].news_data.item = ""
    THEN newsTask' = [newsTask EXCEPT ![t].main_cat_id = main_cat_id,
                                      ![t].category_id = main_cat_id,
                                      ![t].pc = "news_select"]
    ELSE newsTask' = [newsTask EXCEPT ![t].main_cat_id = main_cat_id,
                                      ![t].pc = "sub_select"]

\* insert_news_item(source, news_data) up to the first query
InsertNewsItem(t, news_data) ==
    /\ newsTask[t].pc = "idle"
    /\ newsCalls < MaxNewsCalls
    /\ newsCalls' = newsCalls + 1
    /\ firstNewsCall' = IF newsCalls = 0 THEN now ELSE firstNewsCall
    /\ newsTask' = [newsTask EXCEPT ![t] =
                       [IdleNews EXCEPT !.pc = "main_select",
                                        !.news_data = news_data]]
    /\ UNCHANGED <<news_items, news_categories, now>>
    /\ UNCHANGED notNewsVars

\* SELECT id FROM news_categories WHERE name = $1
MainSelect(t) ==
    /\ newsTask[t].pc = "main_select"
    /\ LET id == MainCategoryId(format_category_name(newsTask[t].news_data.category))
       IN  IF id = 0
           THEN newsTask' = [newsTask EXCEPT ![t].pc = "main_insert"]
           ELSE AfterMain(t, id)
    /\ UNCHANGED <<news_items, news_categories, now, newsCalls, firstNewsCall>>
    /\ UNCHANGED notNewsVars

\* INSERT INTO news_categories (name) VALUES ($1) RETURNING id
MainInsert(t) ==
    /\ newsTask[t].pc = "main_insert"
    /\ news_categories' =
           Append(news_categories,
                  [name |-> format_category_name(newsTask[t].news_data.category),
                   parent_id |-> 0])
    /\ AfterMain(t, Len(news_categories) + 1)
    /\ UNCHANGED <<news_items, now, newsCalls, firstNewsCall>>
    /\ UNCHANGED notNewsVars

\* SELECT id FROM news_categories WHERE name = $1 AND parent_id = $2
SubSelect(t) ==
    /\ newsTask[t].pc = "sub_select"
    /\ LET id == CategoryId(format_category_name(newsTask[t].news_data.item),
                            newsTask[t].main_cat_id)
       IN  IF id = 0
           THEN newsTask' = [newsTask EXCEPT ![t].pc = "sub_insert"]
           ELSE newsTask' = [newsTask EXCEPT ![t].category_id = id,
                                             ![t].pc = "news_select"]
    /\ UNCHANGED <<news_items, news_categories, now, newsCalls, firstNewsCall>>
    /\ UNCHANGED notNewsVars

\* INSERT INTO news_categories (name, parent_id) VALUES ($1, $2) RETURNING id
SubInsert(t) ==
    /\ newsTask[t].pc = "sub_insert"
    /\ news_categories' =
           Append(news_categories,
                  [name |-> format_category_name(newsTask[t].news_data.item),
                   parent_id |-> newsTask[t].main_cat_id])
    /\ newsTask' = [newsTask EXCEPT ![t].category_id = Len(news_categories) + 1,
                                    ![t].pc = "news_select"]
    /\ UNCHANGED <<news_items, now, newsCalls, firstNewsCall>>
    /\ UNCHANGED notNewsVars

\* the duplicate check: on a hit the call returns None
NewsSelect(t) ==
    /\ newsTask[t].pc = "news_select"
    /\ IF existing_news(newsTask[t].category_id,
                        stable_hash(newsTask[t].news_data.content))
       THEN newsTask' = [newsTask EXCEPT ![t] = [IdleNews EXCEPT !.result = "None"]]
       ELSE newsTask' = [newsTask EXCEPT ![t].pc = "news_insert"]
    /\ UNCHANGED <<news_items, news_categories, now, newsCalls, firstNewsCall>>
    /\ UNCHANGED notNewsVars

\* INSERT INTO news_items ... RETURNING news_id
NewsInsert(t) ==
    /\ newsTask[t].pc = "news_insert"
    /\ news_items' =
           Append(news_items,
                  [time |-> newsTask[t].news_data.timestamp,
                   category_id |-> newsTask[t].category_id,
                   content_hash |-> stable_hash(newsTask[t].news_data.content),
                   content |-> newsTask[t].news_data.content])
    /\ newsTask' = [newsTask EXCEPT ![t] = [IdleNews EXCEPT !.result = "news_id"]]
    /\ UNCHANGED <<news_categories, now, newsCalls, firstNewsCall>>
    /\ UNCHANGED notNewsVars

\* time passes
Tick ==
    /\ now < StartNow + MaxTicks * TickHours
    /\ now' = now + TickHours
    /\ UNCHANGED <<news_items, news_categories, newsTask, newsCalls, firstNewsCall>>
    /\ UNCHANGED notNewsVars

\* news_data whose category may carry the name of a subcategory
CategoryNews ==
    [category : {"fed", "interest-rate"}, item : {"", "interest-rate"},
     timestamp : {47}, content : {[head |-> "a", tail |-> ""]}]

CategoryNext ==
    \/ \E t \in NewsTasks, news_data \in CategoryNews : InsertNewsItem(t, news_data)
    \/ \E t \in NewsTasks : MainSelect(t)
    \/ \E t \in NewsTasks : MainInsert(t)
    \/ \E t \in NewsTasks : SubSelect(t)
    \/ \E t \in NewsTasks : SubInsert(t)
    \/ \E t \in NewsTasks : NewsSelect(t)
    \/ \E t \in NewsTasks : NewsInsert(t)

NewsNext ==
    \/ \E t \in NewsTasks, news_data \in NewsData : InsertNewsItem(t, news_data)
    \/ \E t \in NewsTasks : MainSelect(t)
    \/ \E t \in NewsTasks : MainInsert(t)
    \/ \E t \in NewsTasks : SubSelect(t)
    \/ \E t \in NewsTasks : SubInsert(t)
    \/ \E t \in NewsTasks : NewsSelect(t)
    \/ \E t \in NewsTasks : NewsInsert(t)
    \/ Tick

-----------------------------------------------------------------------------
(* insert_trades for trades that share their time (db.py, hl.py)           *)

\* a second ETH trade of the same millisecond as the first, with its own tid
SameTimeTrade ==
    [coin |-> "ETH", time |-> 1000, px |-> "3001", sz |-> "0.8",
     side |-> "A", tid |-> 3]

\* the lists insert_trades is called with when the venue reports it too
\* (one record shorter than in TradeBatches)
SameTimeBatches ==
    { format_trade_data(data) :
        data \in SeqsUpTo(WireTrades \cup {SameTimeTrade}, MaxTrades - 1) }

TradeIdsNext ==
    \E t \in Tasks :
        \/ \E batch \in SameTimeBatches : InsertTradesCall(t, batch)
        \/ TrAcquire(t)
        \/ TrExec(t)
        \/ TrDeadlock(t)
        \/ TrCommit(t)
        \/ GocAcquire(t)
        \/ GocLock(t)
        \/ GocSelect(t)
        \/ GocInsert(t)
        \/ GocCommit(t)
        \/ GocRelease(t)

-----------------------------------------------------------------------------
(* get_or_create_contract across restarts of the process (db.py)           *)

\* restarts of the process
MaxProcesses == 1

ProcInit == processes = 0

\* The process ends when no call is in flight and a new one starts:
\* Database.__init__ sets _contract_cache = {}; the tables remain.
NewProcess ==
    /\ processes < MaxProcesses
    /\ \A t \in Tasks : CanCall(t)
    /\ processes' = processes + 1
    /\ contract_cache' = [k \in ContractKeys |-> 0]
    /\ UNCHANGED <<contracts, contractsSeq, advisoryLocks, poolFree, task,
                   trades, historical_data, candle_cache, arrived,
                   tradesSubmitted>>
    /\ UNCHANGED notDbProcVars

IdentityNext ==
    \/ NewProcess
    \/ \E t \in Tasks :
        \/ \E contract_data \in IdentityDatas : GocCall(t, contract_data)
        \/ GocAcquire(t)
        \/ GocLock(t)
        \/ GocSelect(t)
        \/ GocInsert(t)
        \/ GocCommit(t)
        \/ GocRelease(t)

-----------------------------------------------------------------------------
(* HL._format_candle_data and the candle cache (hl.py)                     *)

\* candle messages: with an update, or without data
CandleMessages ==
    [hasData : {TRUE}, data : CandleUpdates]
    \cup { [hasData |-> FALSE, data |-> CHOOSE c \in CandleUpdates : TRUE] }

NoFormat ==
    [called |-> FALSE, returned |-> "none", key |-> <<>>,
     current |-> <<>>, before |-> <<>>, after |-> <<>>, bars |-> <<>>]

FmtInit == lastFormat = NoFormat

\* _format_candle_data(message, contract, interval): None for a message
\* without data, otherwise the window of the cache key is updated and a
\* copy of it is returned in the record.
FormatCandleData(message, interval) ==
    /\ IF ~message.hasData
       THEN /\ lastFormat' = [NoFormat EXCEPT !.called = TRUE, !.returned = "None"]
            /\ UNCHANGED candle_cache
       ELSE LET key == candle_cache_key(CandleContract, interval)
                current_candle == CurrentCandle(message.data)
                candles == UpdateWindow(candle_cache[key], current_candle)
                data == format_candle_data(candles, CandleContract, interval)
            IN  /\ candle_cache' = [candle_cache EXCEPT ![key] = candles]
                /\ lastFormat' =
                       [called |-> TRUE, returned |-> "record", key |-> key,
                        current |-> current_candle,
                        before |-> candle_cache[key],
                        after |-> candles, bars |-> data.bars]
    /\ UNCHANGED <<contracts, contractsSeq, contract_cache, advisoryLocks,
                   poolFree, task, trades, historical_data, arrived,
                   tradesSubmitted>>
    /\ UNCHANGED notDbFmtVars

FmtNext ==
    \E message \in CandleMessages, interval \in CandleIntervals :
        FormatCandleData(message, interval)

-----------------------------------------------------------------------------
(* RingBufferSingleDimFloat / RingBufferTwoDimFloat (ring_buffer.py)       *)

\* append calls on one buffer
MaxAppends == 7

\* the capacities of the buffers
Capacities == {2, 5}

\* index pairs written into _left_index and _right_index from outside
ForcedIndices(c) ==
    { <<1000000, 1000005>>, <<c, 2 * c>>, <<c + 1, c + 2>>, <<1, 2>> }

NoOp == [op |-> "none", result |-> 0, raised |-> FALSE, before |-> <<>>,
         left |-> 0, right |-> 0]

NoFix == [called |-> FALSE, left |-> 0, right |-> 0,
          fixedLeft |-> 0, fixedRight |-> 0]

\* no buffer has been constructed yet
RbInit ==
    /\ capacity = 0
    /\ left_index = 0
    /\ right_index = 0
    /\ array = <<>>
    /\ rbLive = <<>>
    /\ rbAppended = 0
    /\ rbPopped = 0
    /\ rbLast = NoOp
    /\ rbFix = NoFix

\* a[lo:hi] of numpy for 0 <= lo: the elements lo .. min(hi, len(a)) - 1
Slice(a, lo, hi) ==
    LET n == Cardinality(DOMAIN a)
        top == IF hi < n THEN hi ELSE n
    IN  IF top <= lo THEN <<>> ELSE [i \in 1..(top - lo) |-> a[lo + i - 1]]

\* __len__
RbLen(l, r) == r - l

\* is_full
is_full(l, r, c) == (r - l) = c

\* is_empty
is_empty(l, r) == l = 0 /\ r = 0

\* as_array that never joins the two parts of a wrapped buffer
as_array_Unwrapped(a, l, r, c) == Slice(a, l, r)

\* as_array()
as_array(a, l, r, c) ==
    IF r <= c THEN Slice(a, l, r)
    ELSE Slice(a, l, c) \o Slice(a, 0, r % c)

\* _fix_indices_()
fix_indices(l, r, c) ==
    IF l >= c THEN [left |-> l - c, right |-> r - c]
    ELSE IF l < 0 THEN [left |-> l + c, right |-> r + c]
    ELSE [left |-> l, right |-> r]

\* popright reading the slot after the one it gave up
PopRightSlot_Next(r, c) == (r + 1) % c

\* popright / pop: res = self._array[self._right_index % self.capacity]
PopRightSlot(r, c) == r % c

\* RingBufferSingleDimFloat(c)
RbCreate(c) ==
    /\ capacity = 0
    /\ capacity' = c
    /\ left_index' = 0
    /\ right_index' = 0
    /\ array' = [i \in 0..(c - 1) |-> 0]
    /\ UNCHANGED <<rbLive, rbAppended, rbPopped, rbLast, rbFix>>
    /\ UNCHANGED notRbVars

\* append(value): the values appended are numbered 1, 2, ...
RbAppend ==
    /\ capacity > 0
    /\ rbAppended < MaxAppends
    /\ LET value == rbAppended + 1
           l == IF is_full(left_index, right_index, capacity)
                THEN left_index + 1 ELSE left_index
           fixed == fix_indices(l, right_index + 1, capacity)
       IN  /\ array' = [array EXCEPT ![right_index % capacity] = value]
           /\ left_index' = fixed.left
           /\ right_index' = fixed.right
           /\ rbLive' = IF Len(rbLive) = capacity
                        THEN Append(Tail(rbLive), value)
                        ELSE Append(rbLive, value)
           /\ rbAppended' = value
           /\ rbLast' = [op |-> "append", result |-> 0, raised |-> FALSE,
                         before |-> as_array(array, left_index, right_index, capacity),
                         left |-> left_index, right |-> right_index]
    /\ UNCHANGED <<capacity, rbPopped, rbFix>>
    /\ UNCHANGED notRbVars

\* popright() / pop(): the assertion fails on an empty buffer
RbPopRight ==
    /\ capacity > 0
    /\ LET before == as_array(array, left_index, right_index, capacity) IN
       IF ~(RbLen(left_index, right_index) > 0)
       THEN /\ rbLast' = [op |-> "popright", result |-> 0, raised |-> TRUE,
                          before |-> before,
                          left |-> left_index, right |-> right_index]
            /\ UNCHANGED <<left_index, right_index, rbLive, rbPopped>>
       ELSE LET fixed == fix_indices(left_index, right_index - 1, capacity) IN
            /\ left_index' = fixed.left
            /\ right_index' = fixed.right
            /\ rbLive' = SubSeq(rbLive, 1, Len(rbLive) - 1)
            /\ rbPopped' = rbPopped + 1
            /\ rbLast' = [op |-> "popright",
                          result |-> array[PopRightSlot(fixed.right, capacity)],
                          raised |-> FALSE, before |-> before,
                          left |-> left_index, right |-> right_index]
    /\ UNCHANGED <<capacity, array, rbAppended, rbFix>>
    /\ UNCHANGED notRbVars

\* popleft(): the assertion fails on an empty buffer
RbPopLeft ==
    /\ capacity > 0
    /\ LET before == as_array(array, left_index, right_index, capacity) IN
       IF ~(RbLen(left_index, right_index) > 0)
       THEN /\ rbLast' = [op |-> "popleft", result |-> 0, raised |-> TRUE,
                          before |-> before,
                          left |-> left_index, right |-> right_index]
            /\ UNCHANGED <<left_index, right_index, rbLive, rbPopped>>
       ELSE LET fixed == fix_indices(left_index + 1, right_index, capacity) IN
            /\ left_index' = fixed.left
            /\ right_index' = fixed.right
            /\ rbLive' = Tail(rbLive)
            /\ rbPopped' = rbPopped + 1
            /\ rbLast' = [op |-> "popleft", result |-> array[left_index],
                          raised |-> FALSE, before |-> before,
                          left |-> left_index, right |-> right_index]
    /\ UNCHANGED <<capacity, array, rbAppended, rbFix>>
    /\ UNCHANGED notRbVars

\* test_edge_cases: the indices are overwritten, _fix_indices_() is called,
\* its result is read and the old indices are written back
RbForceFix(l, r) ==
    /\ capacity > 0
    /\ rbFix' = [called |-> TRUE, left |-> l, right |-> r,
                 fixedLeft |-> fix_indices(l, r, capacity).left,
                 fixedRight |-> fix_indices(l, r, capacity).right]
    /\ UNCHANGED <<capacity, left_index, right_index, array, rbLive,
                   rbAppended, rbPopped, rbLast>>
    /\ UNCHANGED notRbVars

\* reset(): the contents are returned, the array is filled with zeros and
\* both indices are set to 0
RbReset ==
    /\ capacity > 0
    /\ array' = [i \in 0..(capacity - 1) |-> 0]
    /\ left_index' = 0
    /\ right_index' = 0
    /\ rbLive' = <<>>
    /\ rbLast' = [op |-> "reset", result |-> 0, raised |-> FALSE,
                  before |-> as_array(array, left_index, right_index, capacity),
                  left |-> left_index, right |-> right_index]
    /\ UNCHANGED <<capacity, rbAppended, rbPopped, rbFix>>
    /\ UNCHANGED notRbVars

RbNext ==
    \/ \E c \in Capacities : RbCreate(c)
    \/ RbAppend
    \/ RbPopRight
    \/ RbPopLeft
    \/ \E p \in ForcedIndices(capacity) : RbForceFix(p[1], p[2])

RbResetNext ==
    \/ \E c \in Capacities : RbCreate(c)
    \/ RbAppend
    \/ RbPopRight
    \/ RbPopLeft
    \/ RbReset

-----------------------------------------------------------------------------
(* From a frame to Database.insert_<k>: on_message (websocket_manager.py), *)
(* forward_data (hl.py), Stream._<k>_callback (stream.py)                  *)

\* how the callbacks registered by HL.subscribe_<k> are defined
\* (hl.py 107, 147, 222), and whether on_message awaits or schedules what
\* a callback returns (websocket_manager.py 151)
ForwardDataDef == "async def"
DispatchAwaits == FALSE

\* Python: calling a function defined with "async def" creates a coroutine
\* object and runs nothing of its body; the body runs when the object is
\* awaited or scheduled as a task
CallRunsBody(def, awaited) == def = "def" \/ awaited

DpInit ==
    /\ dpActive = [k \in StreamTypes |-> 0]
    /\ dpDelivered = [k \in StreamTypes |-> 0]
    /\ dpUnexpected = [k \in StreamTypes |-> 0]
    /\ dpCoroutines = [k \in StreamTypes |-> 0]
    /\ dpInserted = [k \in StreamTypes |-> 0]

\* HL.subscribe_<k>(contract, callback): forward_data is registered
AdapterSubscribe(k) ==
    /\ dpActive[k] = 0
    /\ dpActive' = [dpActive EXCEPT ![k] = 1]
    /\ UNCHANGED <<dpDelivered, dpUnexpected, dpCoroutines, dpInserted>>
    /\ UNCHANGED notDpVars

\* on_message for a data frame of stream k: each registered callback is
\* called with the frame; the body of forward_data formats the frame and
\* awaits Stream._<k>_callback, which awaits Database.insert_<k>
DispatchFrame(k) ==
    /\ dpDelivered[k] + dpUnexpected[k] < MaxFrames
    /\ IF dpActive[k] = 0
       THEN /\ dpUnexpected' = [dpUnexpected EXCEPT ![k] = @ + 1]
            /\ UNCHANGED <<dpDelivered, dpCoroutines, dpInserted>>
       ELSE /\ dpDelivered' = [dpDelivered EXCEPT ![k] = @ + 1]
            /\ UNCHANGED dpUnexpected
            /\ IF CallRunsBody(ForwardDataDef, DispatchAwaits)
               THEN /\ dpInserted' = [dpInserted EXCEPT ![k] = @ + 1]
                    /\ UNCHANGED dpCoroutines
               ELSE /\ dpCoroutines' = [dpCoroutines EXCEPT ![k] = @ + 1]
                    /\ UNCHANGED dpInserted
    /\ UNCHANGED dpActive
    /\ UNCHANGED notDpVars

DpNext ==
    \/ \E k \in StreamTypes : AdapterSubscribe(k)
    \/ \E k \in StreamTypes : DispatchFrame(k)

-----------------------------------------------------------------------------
(* The connections of the pool held by the upserts and by                  *)
(* get_or_create_contract (db.py)                                          *)

\* the size of the pool; the callers are one more than the pool has
\* connections
MaxPool == 2
PlTasks == 1..(MaxPool + 1)

PlInit ==
    /\ plFree = MaxPool
    /\ plPc = [t \in PlTasks |-> "idle"]
    /\ plKind = [t \in PlTasks |-> "none"]
    /\ plCached = FALSE
    /\ plLock = 0

\* insert_trades / insert_orderbook / insert_candles for one contract, up
\* to "async with self.pool.acquire() as conn"
UpsertCall(t, k) ==
    /\ plPc[t] \in {"idle", "done"}
    /\ plPc' = [plPc EXCEPT ![t] = "acquire"]
    /\ plKind' = [plKind EXCEPT ![t] = k]
    /\ UNCHANGED <<plFree, plCached, plLock>>
    /\ UNCHANGED notPlVars

\* the upsert gets its connection, opens its transaction and calls
\* get_or_create_contract, which returns a cached id at once and otherwise
\* waits for a connection of its own
UpsertAcquire(t) ==
    /\ plPc[t] = "acquire"
    /\ plFree > 0
    /\ plFree' = plFree - 1
    /\ plPc' = [plPc EXCEPT ![t] = IF plCached THEN "executemany"
                                   ELSE "goc_acquire"]
    /\ UNCHANGED <<plKind, plCached, plLock>>
    /\ UNCHANGED notPlVars

\* get_or_create_contract: "async with self.pool.acquire() as conn"
PlGocAcquire(t) ==
    /\ plPc[t] = "goc_acquire"
    /\ plFree > 0
    /\ plFree' = plFree - 1
    /\ plPc' = [plPc EXCEPT ![t] = "goc_lock"]
    /\ UNCHANGED <<plKind, plCached, plLock>>
    /\ UNCHANGED notPlVars

\* get_or_create_contract: pg_advisory_xact_lock
PlGocLock(t) ==
    /\ plPc[t] = "goc_lock"
    /\ plLock = 0
    /\ plLock' = t
    /\ plPc' = [plPc EXCEPT ![t] = "goc_commit"]
    /\ UNCHANGED <<plFree, plKind, plCached>>
    /\ UNCHANGED notPlVars

\* get_or_create_contract: the row is found or inserted, the transaction
\* commits, the cache is written and the connection goes back to the pool
PlGocReturn(t) ==
    /\ plPc[t] = "goc_commit"
    /\ plLock' = 0
    /\ plCached' = TRUE
    /\ plFree' = plFree + 1
    /\ plPc' = [plPc EXCEPT ![t] = "executemany"]
    /\ UNCHANGED plKind
    /\ UNCHANGED notPlVars

\* the upsert's executemany, its COMMIT and the release of its connection
UpsertReturn(t) ==
    /\ plPc[t] = "executemany"
    /\ plFree' = plFree + 1
    /\ plPc' = [plPc EXCEPT ![t] = "done"]
    /\ UNCHANGED <<plKind, plCached, plLock>>
    /\ UNCHANGED notPlVars

PlNext ==
    \E t \in PlTasks :
        \/ \E k \in StreamTypes : UpsertCall(t, k)
        \/ UpsertAcquire(t)
        \/ PlGocAcquire(t)
        \/ PlGocLock(t)
        \/ PlGocReturn(t)
        \/ UpsertReturn(t)

-----------------------------------------------------------------------------
(* APIManager._load_exchanges (api_manager.py)                             *)

\* the name of the adapter's entry in the config
ExchangeName == "HYPERLIQUID"

AmInit ==
    /\ exchanges = {}
    /\ amPc = "connecting"

\* "await exchange.connectAsync(exchange_config)" is over: when it has
\* returned, "self.exchanges[exchange_name] = exchange"; when it has
\* raised, "except Exception" logs the error and the adapter is left out.
LoadExchange ==
    /\ amPc = "connecting"
    /\ hlPc \in {"returned", "raised"}
    /\ exchanges' = IF hlPc = "returned" THEN exchanges \cup {ExchangeName}
                    ELSE exchanges
    /\ amPc' = IF hlPc = "returned" THEN "loaded" ELSE "logged"
    /\ UNCHANGED notAmVars

LoadNext ==
    \/ HlNext
    \/ LoadExchange

-----------------------------------------------------------------------------
(* Info.initialize (info.py) and WebsocketManager.start                    *)

\* calls of initialize, all callers together
MaxInitCalls == 3

\* the coroutines that call initialize on the one instance
InfoCallers == {1, 2}

\* meta["universe"] as the venue returns it: the names, in order
MetaUniverses == { <<"BTC", "ETH">>, <<"ETH">> }

\* spot_meta["universe"]: name and index
SpotUniverse == << [name |-> "PURR/USDC", index |-> 0] >>

SpotAssetOffset == 10000

Coins == {"BTC", "ETH", "PURR/USDC"}

\* assets are integers; -1 stands for a name that is not in the dict
NoAsset == 0 - 1

InfoInit ==
    /\ info_initialized = FALSE
    /\ coin_to_asset = [c \in Coins |-> NoAsset]
    /\ infoPc = [c \in InfoCallers |-> "idle"]
    /\ infoMeta = [c \in InfoCallers |-> <<>>]
    /\ ws_tasks = 0
    /\ metaRequests = 0
    /\ infoCalls = 0

\* for asset, asset_info in enumerate(meta["universe"]):
\*     self.coin_to_asset[asset_info["name"]] = asset
\* for spot_info in spot_meta["universe"]:
\*     self.coin_to_asset[spot_info["name"]] = spot_info["index"] + 10000
ProcessMeta(dict, universe, spot) ==
    [c \in Coins |->
        IF \E i \in 1..Len(spot) : spot[i].name = c
        THEN LET i == CHOOSE i \in 1..Len(spot) :
                        /\ spot[i].name = c
                        /\ \A j \in 1..Len(spot) : spot[j].name = c => j <= i
             IN  spot[i].index + SpotAssetOffset
        ELSE IF \E i \in 1..Len(universe) : universe[i] = c
        THEN LET i == CHOOSE i \in 1..Len(universe) :
                        /\ universe[i] = c
                        /\ \A j \in 1..Len(universe) : universe[j] = c => j <= i
             IN  i - 1
        ELSE dict[c]]

\* initialize() up to its return or its first suspension: the test of
\* _initialized, "await self.ws_manager.start()", which creates the two
\* tasks without suspending, and the request of self.meta()
InfoInitialize(c) ==
    /\ infoPc[c] \in {"idle", "returned", "raised"}
    /\ infoCalls < MaxInitCalls
    /\ infoCalls' = infoCalls + 1
    /\ IF info_initialized
       THEN /\ infoPc' = [infoPc EXCEPT ![c] = "returned"]
            /\ UNCHANGED <<ws_tasks, metaRequests>>
       ELSE /\ ws_tasks' = ws_tasks + 1
            /\ metaRequests' = metaRequests + 1
            /\ infoPc' = [infoPc EXCEPT ![c] = "meta"]
    /\ UNCHANGED <<info_initialized, coin_to_asset, infoMeta>>
    /\ UNCHANGED notInfoVars

\* meta = await self.meta() returns or raises; then the request of
\* self.spot_meta()
MetaAnswered(c, universe, outcome) ==
    /\ infoPc[c] = "meta"
    /\ outcome # "err"
    /\ IF outcome = "ClientError"
       THEN /\ infoPc' = [infoPc EXCEPT ![c] = "raised"]
            /\ UNCHANGED infoMeta
       ELSE /\ infoPc' = [infoPc EXCEPT ![c] = "spot_meta"]
            /\ infoMeta' = [infoMeta EXCEPT ![c] = universe]
    /\ UNCHANGED <<info_initialized, coin_to_asset, ws_tasks, metaRequests,
                   infoCalls>>
    /\ UNCHANGED notInfoVars

\* spot_meta = await self.spot_meta() returns or raises; the metadata is
\* processed and _initialized is set
SpotMetaAnswered(c, outcome) ==
    /\ infoPc[c] = "spot_meta"
    /\ outcome # "err"
    /\ IF outcome = "ClientError"
       THEN /\ infoPc' = [infoPc EXCEPT ![c] = "raised"]
            /\ UNCHANGED <<info_initialized, coin_to_asset>>
       ELSE /\ infoPc' = [infoPc EXCEPT ![c] = "returned"]
            /\ coin_to_asset' =
                  ProcessMeta(coin_to_asset, infoMeta[c], SpotUniverse)
            /\ info_initialized' = TRUE
    /\ infoMeta' = [infoMeta EXCEPT ![c] = <<>>]
    /\ UNCHANGED <<ws_tasks, metaRequests, infoCalls>>
    /\ UNCHANGED notInfoVars

InfoNext ==
    \E c \in InfoCallers :
        \/ InfoInitialize(c)
        \/ \E universe \in MetaUniverses, outcome \in PostOutcomes :
               MetaAnswered(c, universe, outcome)
        \/ \E outcome \in PostOutcomes : SpotMetaAnswered(c, outcome)

-----------------------------------------------------------------------------
(* Specifications                                                          *)

\* The state after construction of every component.
Init == WsInit /\ UnsubInit /\ ApiInit /\ ObInit /\ DbInit /\ BookInit /\ FanInit /\ CbInit /\ HlInit /\ NewsInit /\ ProcInit /\ FmtInit /\ RbInit /\ DpInit /\ PlInit /\ AmInit /\ InfoInit

SpecWs == Init /\ [][WsNext]_vars

SpecApi == Init /\ [][ApiNext]_vars

SpecOrderbook == Init /\ [][ObNext]_vars

\* The manager, started and not stopped, with users that subscribe and
\* unsubscribe (the keepalive task touches none of the fields involved).
UnsubNext ==
    \/ Start
    \/ RunLoopEnter
    \/ ConnectFail
    \/ ConnectOk
    \/ ReplaySendOk
    \/ ReplaySendFail
    \/ \E f \in Frames : Recv(f)
    \/ RecvClosed
    \/ AExit
    \/ ConnDrop
    \/ \E s \in Subscriptions, cb \in Callbacks : Subscribe(s, cb)
    \/ ClientSendOk
    \/ ClientSendFail
    \/ \E s \in Subscriptions, id \in 1..MaxSubs : Unsubscribe(s, id)
    \/ UnsubSendOk
    \/ UnsubSendFail

SpecUnsubscribe == Init /\ [][UnsubNext]_vars

SpecContract == Init /\ [][ContractNext]_vars

SpecTrades == Init /\ [][TradesNext]_vars

SpecCandle == Init /\ [][CandleNext]_vars

SpecBook == Init /\ [][BookNext]_vars

SpecFanout == Init /\ [][FanNext]_vars

SpecCallback == Init /\ [][CbNext]_vars

SpecConnect == Init /\ [][HlNext]_vars

SpecNews == Init /\ [][NewsNext]_vars

SpecTradeIds == Init /\ [][TradeIdsNext]_vars

SpecIdentity == Init /\ [][IdentityNext]_vars

SpecFormatCandle == Init /\ [][FmtNext]_vars

SpecRingBuffer == Init /\ [][RbNext]_vars

SpecDispatch == Init /\ [][DpNext]_vars

\* get_or_create_contract with transactions that fail
CacheNext ==
    \/ ContractNext
    \/ \E t \in Tasks : GocFail(t)

SpecCache == Init /\ [][CacheNext]_vars

SpecCategories == Init /\ [][CategoryNext]_vars

SpecPool == Init /\ [][PlNext]_vars

SpecLoad == Init /\ [][LoadNext]_vars

SpecInfo == Init /\ [][InfoNext]_vars

SpecRingReset == Init /\ [][RbResetNext]_vars

\* the read loop takes every frame that has arrived and the event loop runs
\* every task that is ready
SpecDispatchFair == SpecDispatch /\ WF_vars(DpNext)

-----------------------------------------------------------------------------
(* Properties of the WebsocketManager                                      *)

IsPrefix(a, b) ==
    /\ Len(a) <= Len(b)
    /\ \A i \in 1..Len(a) : a[i] = b[i]

\* The subscribe frames of a queue, as the venue should see them.
QueueFrames(q) ==
    [i \in 1..Len(q) |-> [subscription |-> q[i].subscription,
                          subscription_id |-> q[i].active.subscription_id]]

QueuedIds(q) == {q[i].active.subscription_id : i \in 1..Len(q)}

InQueueAtOpen(f) == f.subscription_id \in QueuedIds(queueAtOpen)

\* The frames sent on the current connection for subscriptions that were
\* waiting in the queue when it opened.
ReplayedFrames == SelectSeq(sent, InQueueAtOpen)

\* C2: the subscriptions queued while the connection was not ready are sent
\* on the connection that opens next in the order they were submitted, and
\* all of them have been sent before the read loop waits for a frame and
\* before any frame of that connection is dispatched to a callback.
C2_QueuedReplayInOrder ==
    /\ IsPrefix(ReplayedFrames, QueueFrames(queueAtOpen))
    /\ (dispatched \/ wsPc = "recv")
          => ReplayedFrames = QueueFrames(queueAtOpen)

\* C2 witness: two queued subscriptions were replayed and a frame of the
\* same connection has then been dispatched.
C2_Witness ==
    /\ Len(queueAtOpen) >= 2
    /\ dispatched
    /\ ReplayedFrames = QueueFrames(queueAtOpen)

\* An exclusive identifier never has two active subscribers.
ExclusiveAtMostOne ==
    \A ident \in ExclusiveIdentifiers : Len(active_subscriptions[ident]) <= 1

\* C3 (as claimed): a subscribe call for an exclusive identifier that
\* already has an active subscription raises (and so sends nothing and
\* registers nothing), and an exclusive identifier has at most one active
\* subscriber.
C3_SecondExclusiveSubscribeRaises ==
    /\ (lastCall.op = "subscribe"
          /\ lastCall.ident \in ExclusiveIdentifiers
          /\ lastCall.hadActive)
          => lastCall.outcome = "raised"
    /\ ExclusiveAtMostOne

C10_FrameErrorsKeepConnection ==
    leftBy \notin {"decode", "callback"}


-----------------------------------------------------------------------------
(* Properties of API.post                                                  *)

\* C7 (as claimed): post() classifies by status alone: below 400 it raises
\* neither ClientError nor ServerError, from 400 to 499 it raises
\* ClientError whatever the body, from 500 it raises ServerError with the
\* status and the raw body.
C7_ClassifiedByStatusAlone ==
    apiLast.called =>
        /\ apiLast.status < 400
              => apiLast.raised \notin {"ClientError", "ServerError"}
        /\ (400 <= apiLast.status /\ apiLast.status < 500)
              => apiLast.raised = "ClientError"
        /\ apiLast.status >= 500
              => /\ apiLast.raised = "ServerError"
                 /\ apiLast.args = <<apiLast.status, PyStr(apiLast.text)>>

IsClientStatus(st) == 400 <= st /\ st < 500

\* The body is a JSON object that has the fields code and msg.
HasCodeAndMsg(text) ==
    /\ orjson_loads(text).ok
    /\ orjson_loads(text).type = "dict"
    /\ {"code", "msg"} \subseteq DOMAIN orjson_loads(text).dict

\* C8: a 4xx response whose body is a JSON object with code and msg raises
\* a ClientError built from the status, that code, that message and the
\* body's data field (None when absent); a 4xx response whose body is not
\* JSON raises a ClientError with no code and the raw body as its message.
C8_ClientErrorCarriesVenueFields ==
    (apiLast.called /\ IsClientStatus(apiLast.status)) =>
        /\ HasCodeAndMsg(apiLast.text)
              => /\ apiLast.raised = "ClientError"
                 /\ apiLast.args[1] = apiLast.status
                 /\ apiLast.args[2] = PyStr(orjson_loads(apiLast.text).dict["code"])
                 /\ apiLast.args[3] = PyStr(orjson_loads(apiLast.text).dict["msg"])
                 /\ apiLast.args[5] = DictGet(orjson_loads(apiLast.text).dict, "data")
        /\ ~orjson_loads(apiLast.text).ok
              => /\ apiLast.raised = "ClientError"
                 /\ apiLast.args[1] = apiLast.status
                 /\ apiLast.args[2] = PyNone
                 /\ apiLast.args[3] = PyStr(apiLast.text)

\* C8 witness: HTTP 422 with {"code":"91","msg":"bad nonce"} has raised a
\* ClientError with code "91" and message "bad nonce".
C8_Witness ==
    /\ apiLast.called
    /\ apiLast.status = 422
    /\ apiLast.text = "{\"code\":\"91\",\"msg\":\"bad nonce\"}"
    /\ apiLast.raised = "ClientError"
    /\ apiLast.args[2] = PyStr("91")
    /\ apiLast.args[3] = PyStr("bad nonce")

-----------------------------------------------------------------------------
(* Properties of the HL normalisation                                      *)

\* C6: with exactly two elements in "levels", the bids are the levels of
\* element 0 and the asks those of element 1, each level with its price,
\* quantity and order count at its position; otherwise bids and asks are
\* empty.
C6_LevelsMapPositionally ==
    obLast.called =>
        LET d == obLast.data
            r == obLast.result
        IN  IF d.hasLevels /\ Len(d.levels) = 2
            THEN /\ Len(r.bids) = Len(d.levels[1])
                 /\ Len(r.asks) = Len(d.levels[2])
                 /\ \A i \in 1..Len(d.levels[1]) :
                       /\ r.bids[i].price = Float(d.levels[1][i].px)
                       /\ r.bids[i].qty = Float(d.levels[1][i].sz)
                       /\ r.bids[i].orders = d.levels[1][i].n
                 /\ \A i \in 1..Len(d.levels[2]) :
                       /\ r.asks[i].price = Float(d.levels[2][i].px)
                       /\ r.asks[i].qty = Float(d.levels[2][i].sz)
                       /\ r.asks[i].orders = d.levels[2][i].n
            ELSE r.bids = <<>> /\ r.asks = <<>>

\* C6 witness: the frame of the ETH scenario (one bid 3000 x 1.5 with two
\* orders, one ask 3001 x 0.8 with one order) has been normalised.
C6_Witness ==
    /\ obLast.called
    /\ obLast.data.coin = "ETH"
    /\ obLast.data.levels = << <<[px |-> "3000", sz |-> "1.5", n |-> 2]>>,
                              <<[px |-> "3001", sz |-> "0.8", n |-> 1]>> >>
    /\ obLast.result.bids = <<[price |-> 3000000, qty |-> 1500, orders |-> 2]>>
    /\ obLast.result.asks = <<[price |-> 3001000, qty |-> 800, orders |-> 1]>>

\* C6 witness for the malformed case: a "levels" array of three elements
\* has been normalised to empty sides.
C6_WitnessMalformed ==
    /\ obLast.called
    /\ obLast.data.hasLevels
    /\ Len(obLast.data.levels) = 3
    /\ obLast.result.bids = <<>>
    /\ obLast.result.asks = <<>>

-----------------------------------------------------------------------------
(* Properties of the database                                              *)

\* rows with the identity tuple key that transactions have inserted and not
\* yet committed
UncommittedContracts(key) ==
    { t \in Tasks : \E i \in 1..Len(task[t].created) :
                        task[t].created[i].key = key }

\* get_or_create_contract calls that have returned for the identity tuple key
ReturnedFor(key) ==
    { t \in Tasks : /\ task[t].op = "contract"
                    /\ task[t].pc = "done"
                    /\ cache_key(task[t].contract_data) = key }

StoredFor(trade) ==
    { i \in 1..Len(trades) :
        /\ trades[i].time = FromTimestamp(trade.timestamp)
        /\ \E c \in MatchingContracts(cache_key(trade.contract)) :
               trades[i].contract_id = contracts[c].id
        /\ trades[i].trade_id = trade.tid }

\* rows of trades with the conflict key of the trade record
StoredAt(trade) ==
    { i \in 1..Len(trades) :
        /\ trades[i].time = FromTimestamp(trade.timestamp)
        /\ \E c \in MatchingContracts(cache_key(trade.contract)) :
               trades[i].contract_id = contracts[c].id }

\* how often the insert_trades calls that have returned delivered the record
Occurrences(batch, trade) ==
    Cardinality({ i \in 1..Len(batch) : batch[i] = trade })

Delivered(t, trade) ==
    IF task[t].op = "trades" /\ task[t].pc = "done"
    THEN Occurrences(task[t].trades, trade)
    ELSE 0

FormattedTrades == { FormatTrade(w) : w \in WireTrades }

\* C4: insert_trades is idempotent: however often a trade record has been
\* delivered by insert_trades calls that returned (twice in one batch, or
\* in separate calls, concurrent or not), exactly one trades row is stored
\* for it, and there is never more than one row with its time and contract.
C4_InsertTradesIdempotent ==
    \A trade \in FormattedTrades :
        /\ Cardinality(StoredAt(trade)) <= 1
        /\ (\E t \in Tasks : Delivered(t, trade) > 0)
               => Cardinality(StoredFor(trade)) = 1

\* The same record delivered twice in one batch and once more by a second
\* call; both calls have returned and one row is stored.
C4_Witness ==
    \E trade \in FormattedTrades :
        \E t \in Tasks, u \in Tasks :
            /\ t # u
            /\ Delivered(t, trade) = 2
            /\ Delivered(u, trade) = 1
            /\ Cardinality(StoredFor(trade)) = 1

\* C5: a bar with timestamp t is written durably only after an update with a
\* newer timestamp than t has arrived: every row of historical_data is
\* older than some update received so far (for the updates t=100, t=100,
\* t=200 nothing is stored before the t=200 update).
C5_BarWrittenOnlyAfterNewerUpdate ==
    \A i \in 1..Len(historical_data) :
        \E u \in arrived : FromTimestampUtc(u) > historical_data[i].time

-----------------------------------------------------------------------------
(* Properties of unsubscribe                                               *)

\* the pairs of a registry entry that carry the id
WithId(active, subscription_id) ==
    { k \in 1..Len(active) : active[k].subscription_id = subscription_id }

\* C11: an unsubscribe(topic, id) call that has returned has removed
\* exactly the pairs with that id from the topic, has returned true iff it
\* removed one, and has sent an unsubscribe frame iff it removed the last
\* remaining subscriber of the topic (no frame when other subscribers stay
\* or when the id was not registered).
C11_UnsubscribeFrameIffLastRemoved ==
    lastUnsub.outcome \in {"true", "false"} =>
        LET removed == WithId(lastUnsub.before, lastUnsub.subscription_id) # {}
        IN  /\ lastUnsub.after =
                   WithoutId(lastUnsub.before, lastUnsub.subscription_id)
            /\ (lastUnsub.outcome = "true") <=> removed
            /\ lastUnsub.frame <=> (removed /\ lastUnsub.after = <<>>)

-----------------------------------------------------------------------------
(* Properties of the upserts                                               *)

\* C12: an upsert of a record whose key is already stored leaves the stored
\* row unchanged (first writer wins): every stored order-book level holds
\* the values of the first write for its (time, contract, side, level).
C12_FirstWriterWins == orderbook_snapshots = firstLevels

-----------------------------------------------------------------------------
(* Properties of Stream.subscribe_all                                      *)

\* the subscriptions whose venue call has failed
FailedStreams ==
    { k \in StreamTypes :
        /\ IsRaise(stOutcome[k])
        /\ stPc[k] \in {"returned", "raised"} }

-----------------------------------------------------------------------------
(* Properties of the forwarding callbacks                                  *)

\* C14: a failure inside Database.insert_trades, insert_orderbook or
\* insert_candles never leaves the forwarding callback of the adapter as an
\* exception.
C14_PersistenceFailureAbsorbed ==
    \A k \in StreamTypes : fwPc[k] # "raised"

-----------------------------------------------------------------------------
(* Properties of HL.connectAsync                                           *)

\* the configured account address differs from the address of the key
AgentKeyConfig ==
    /\ hlCfg # NoCfg
    /\ hlCfg.public \notin {"", KeyAddress}

\* C15: with an account address that differs from the address of the signing
\* key, connectAsync never returns normally, posts no approveAgent action
\* and leaves self.info and self.exchange unset.
C15_AgentKeyRaisesBeforeApproval ==
    AgentKeyConfig =>
        /\ hlPc \notin {"returned", "approve_initialize", "approve_post",
                        "initialize"}
        /\ hlPosted = <<>>
        /\ hlInfo = "None"
        /\ hlExchange = "None"

\* the agent check has raised for another account's address
C15_Witness ==
    /\ hlCfg # NoCfg
    /\ hlCfg.public = "0xCd"
    /\ hlPc = "raised"
    /\ hlExc = "You should not create an agent using an agent"
    /\ hlPosted = <<>>

\* the account state has been read and all of it is zero
ZeroEquity ==
    /\ hlPc \notin {"idle", "user_state", "spot_user_state"}
    /\ hlUser.accountValue # "none"
    /\ Float(hlUser.accountValue) = 0
    /\ \A i \in 1..Len(hlUser.balances) : Float(hlUser.balances[i].total) = 0

\* C16: for an account without equity connectAsync raises the descriptive
\* error in _setup, with no approval posted and no signed client created.
C16_ZeroEquityRaisesInSetup ==
    (ZeroEquity /\ hlExc # "ClientError") =>
        /\ hlPc = "raised"
        /\ hlExc = "No accountValue"
        /\ hlPosted = <<>>
        /\ hlClients = <<>>

-----------------------------------------------------------------------------
(* Properties of the connection state of WebsocketManager                  *)

\* run_forever is in asyncio.sleep(5) after a connection attempt
InBackoff == wsPc = "loop" /\ connAttempts > 0 /\ ~stop_event

\* C17: while run_forever waits to reconnect after a drop, ws_ready is
\* false, so that subscribe() queues.
C17_NotReadyDuringBackoff == InBackoff => ~ws_ready

\* the registry entry of the identifier of a queue entry
RegisteredFor(e) == active_subscriptions[subscription_to_identifier(e.subscription)]

\* C18: subscribe() on a connection that is not ready appends one entry
\* with the allocated id at the tail of the queue, sends nothing, registers
\* nothing and returns that id; the replay registers every queue entry
\* under the id and callback it was queued with.
C18_QueuedSubscribeKeepsId ==
    [][ /\ (subscription_id_counter' # subscription_id_counter /\ ~ws_ready)
           => /\ queued_subscriptions' =
                     Append(queued_subscriptions,
                            queued_subscriptions'[Len(queued_subscriptions')])
              /\ queued_subscriptions'[Len(queued_subscriptions')]
                     .active.subscription_id = subscription_id_counter'
              /\ subscription_id_counter' = subscription_id_counter + 1
              /\ lastCall'.outcome = "queued"
              /\ lastCall'.subscription_id = subscription_id_counter'
              /\ UNCHANGED <<active_subscriptions, sent, clFrame, clPc>>
        /\ (replayIdx' # replayIdx /\ replayIdx' > 0)
           => LET e == queued_subscriptions[replayIdx'] IN
              /\ active_subscriptions'[subscription_to_identifier(e.subscription)]
                     = Append(RegisteredFor(e), e.active)
              /\ e.active.subscription_id \in QueuedIds(queueAtOpen')
      ]_vars

\* a subscription was queued and the replay has registered it under the id
\* that the call returned
C18_Witness ==
    /\ lastCall.op = "subscribe"
    /\ lastCall.outcome = "queued"
    /\ lastCall.subscription_id \in QueuedIds(queueAtOpen)
    /\ \E k \in 1..Len(active_subscriptions[lastCall.ident]) :
           active_subscriptions[lastCall.ident][k].subscription_id =
               lastCall.subscription_id
    /\ Len(sent) >= 1

-----------------------------------------------------------------------------
(* Properties of Database.insert_news_item                                 *)

\* the rows stored for a category name path and a content hash
NewsRows(main, sub, h) ==
    { i \in 1..Len(news_items) :
        /\ news_items[i].content_hash = h
        /\ LET c == news_categories[news_items[i].category_id] IN
           IF sub = ""
           THEN c.name = main /\ c.parent_id = 0
           ELSE /\ c.name = sub
                /\ c.parent_id # 0
                /\ news_categories[c.parent_id].name = main }

\* C19: while all calls of insert_news_item fall within 24 hours, at most
\* one row is stored for a category and a content hash.
C19_OneRowPerContentInWindow ==
    now - firstNewsCall < DedupWindow =>
        \A main \in {"Fed"}, sub \in {"", "Interest Rate"}, h \in {0, 11} :
            Cardinality(NewsRows(main, sub, h)) <= 1

-----------------------------------------------------------------------------
(* Properties of insert_trades for trades with the same time               *)

\* the record was delivered by an insert_trades call that has returned
WasDelivered(trade) == \E t \in Tasks : Delivered(t, trade) > 0

\* C20: two trades of one contract with the same time and different trade
\* ids, both delivered by insert_trades calls that returned, are both
\* stored.
C20_SameTimeTradesBothStored ==
    LET first == FormatTrade(CHOOSE w \in WireTrades : w.coin = SameTimeTrade.coin)
        second == FormatTrade(SameTimeTrade)
    IN  (WasDelivered(first) /\ WasDelivered(second))
            => /\ StoredFor(first) # {}
               /\ StoredFor(second) # {}

-----------------------------------------------------------------------------
(* Properties of the identity of contracts                                 *)

\* the identity tuple of a record as it was handed over: an absent field is
\* null, nothing else is changed
RawKey(contract_data) ==
    <<contract_data.symbol, contract_data.secType, contract_data.exchange,
      contract_data.currency,
      ContractGet(contract_data, "multiplier"),
      ContractGet(contract_data, "expiration"),
      ContractGet(contract_data, "right"),
      ContractGet(contract_data, "strike")>>

\* get_or_create_contract calls that have returned
ReturnedCalls == { t \in Tasks : task[t].op = "contract" /\ task[t].pc = "done" }

-----------------------------------------------------------------------------
(* Properties of the candle cache                                          *)

\* the last update had the timestamp of the newest cached bar
SameAsNewest ==
    /\ lastFormat.before # <<>>
    /\ lastFormat.before[Len(lastFormat.before)].time = lastFormat.current.time

\* C22: every entry of the candle cache holds at most 2 bars; an update
\* with the timestamp of the newest cached bar replaces that bar and keeps
\* the length, any other update is appended and the oldest bar is evicted
\* beyond 2; the record returned holds the whole window after the update.
C22_WindowOfTwo ==
    /\ \A key \in CandleCacheKeys : Len(candle_cache[key]) <= 2
    /\ lastFormat.returned = "record" =>
         LET before == lastFormat.before
             after == lastFormat.after
             n == Len(before)
         IN  /\ IF SameAsNewest
                THEN /\ Len(after) = n
                     /\ after[n] = lastFormat.current
                     /\ \A i \in 1..(n - 1) : after[i] = before[i]
                ELSE /\ after[Len(after)] = lastFormat.current
                     /\ IF n = 2
                        THEN after = <<before[2], lastFormat.current>>
                        ELSE after = Append(before, lastFormat.current)
             /\ lastFormat.bars = after
             /\ candle_cache[lastFormat.key] = after

\* a full window has taken a bar with a new timestamp and dropped its
\* oldest bar
C22_Witness ==
    /\ lastFormat.returned = "record"
    /\ Len(lastFormat.before) = 2
    /\ ~SameAsNewest
    /\ lastFormat.after = <<lastFormat.before[2], lastFormat.current>>
    /\ lastFormat.before[1].time = 100
    /\ lastFormat.current.time = 300

-----------------------------------------------------------------------------
(* Properties of the dispatch of frames                                    *)

\* frames that carry data of a topic
DataFrames ==
    { f \in Frames : f.kind = "json" /\ ws_msg_to_identifier(f) \notin {"pong", "None"} }

\* C23: a data frame that the read loop receives is handed to every
\* callback registered for its identifier at that time, once each, in the
\* order of registration.
C23_FrameReachesEveryCallback ==
    (wsPc = "recv" /\ connOpen) =>
        \A f \in DataFrames :
            InvokedCallbacks(f) = active_subscriptions[ws_msg_to_identifier(f)]

-----------------------------------------------------------------------------
(* Properties of the ring buffers                                          *)

\* the numbers lo, lo + 1, ..., hi
Range(lo, hi) == [i \in 1..(hi - lo + 1) |-> lo + i - 1]

C25_FixIndicesRestoresBound ==
    capacity > 0 =>
        /\ rbFix.called =>
               /\ 0 <= rbFix.fixedLeft
               /\ rbFix.fixedLeft < capacity
               /\ rbFix.fixedRight - rbFix.fixedLeft = rbFix.right - rbFix.left
        /\ 0 <= left_index
        /\ left_index < capacity
        /\ 0 <= RbLen(left_index, right_index)
        /\ RbLen(left_index, right_index) <= capacity

\* C26: on a non-empty buffer popleft returns the oldest and popright the
\* newest live value, the length drops by one and the other live values
\* keep their order; on an empty buffer both raise and change nothing; the
\* live values are those appended and not yet popped or overwritten.
C26_PopsReturnEnds ==
    LET now_ == as_array(array, left_index, right_index, capacity)
        before == rbLast.before
    IN  /\ now_ = rbLive
        /\ (rbLast.op \in {"popleft", "popright"} /\ rbLast.raised) =>
               /\ before = <<>>
               /\ now_ = <<>>
               /\ left_index = rbLast.left
               /\ right_index = rbLast.right
        /\ (rbLast.op = "popleft" /\ ~rbLast.raised) =>
               /\ before # <<>>
               /\ rbLast.result = Head(before)
               /\ now_ = Tail(before)
        /\ (rbLast.op = "popright" /\ ~rbLast.raised) =>
               /\ before # <<>>
               /\ rbLast.result = before[Len(before)]
               /\ now_ = SubSeq(before, 1, Len(before) - 1)

\* popright has returned the newest value of a buffer whose live values
\* lay across the end of the array
C26_Witness ==
    /\ rbLast.op = "popright"
    /\ ~rbLast.raised
    /\ rbLast.right > capacity
    /\ rbLast.left > 0
    /\ rbLast.result = rbAppended
    /\ rbPopped >= 2

-----------------------------------------------------------------------------
(* Properties of the path from a frame to the store                        *)

\* C27: once a data frame of a stream subscribed through the adapter has
\* been handed to its callback, Database.insert_<k> of that stream is
\* eventually called.
C27_FrameReachesStore ==
    \A k \in StreamTypes : (dpDelivered[k] > 0) ~> (dpInserted[k] > 0)

-----------------------------------------------------------------------------
(* Properties of the replay of the queue                                   *)

\* C28: on a connection that is open the replay of the queue runs to its
\* end, whatever the queue holds: run_forever does not leave the
\* connection from inside the replay while the connection is up, so the
\* queue is emptied and the read loop is reached.
C28_ReplayReachesReadLoop ==
    ~(wsPc = "aexit" /\ connOpen /\ leftBy = "exclusive")

\* the places of the registry: an identifier and an index of its list
RegistryPlaces ==
    { <<i, k>> \in Identifiers \X (1..(MaxSubs * (MaxConn + 1))) :
          k <= Len(active_subscriptions[i]) }

\* C29: the entries of the registry hold pairwise distinct ids, so no
\* (callback, id) pair is registered more than once, also after a replay
\* that a failed send has interrupted and the next connection has repeated.
C29_RegistryIdsDistinct ==
    \A p, q \in RegistryPlaces :
        p # q =>
            active_subscriptions[p[1]][p[2]].subscription_id
                # active_subscriptions[q[1]][q[2]].subscription_id

\* no call of unsubscribe has named the id
NeverUnsubscribed(id) ==
    \/ unCount = 0
    \/ unCount = 1 /\ lastUnsub.subscription_id # id

\* C30: a pair that subscribe() has registered on a ready connection is
\* in the registry while its subscribe frame is being sent and from then
\* on, as long as unsubscribe has not been called for its id.
C30_RegisteredFromSendOn ==
    ( /\ lastCall.op = "subscribe"
      /\ lastCall.outcome = "registered"
      /\ NeverUnsubscribed(lastCall.subscription_id) ) =>
        \E k \in 1..Len(active_subscriptions[lastCall.ident]) :
            active_subscriptions[lastCall.ident][k].subscription_id
                = lastCall.subscription_id

-----------------------------------------------------------------------------
(* Properties of the keys used by HL.connectAsync                          *)

\* connectAsync has run to its last line
ConnectSucceeded == hlPc = "returned" /\ hlExchange # "None"

\* C31: after connectAsync has run to its end self.exchange signs with the
\* agent key, the sessions of the primary-key client are closed, and the
\* primary key has signed the approveAgent action and nothing else.
C31_PrimaryKeySignsOnlyApproval ==
    ConnectSucceeded =>
        /\ hlWallet = "agent"
        /\ hlSessions \cap {"account", "account.info"} = {}
        /\ hlSigned = << [wallet |-> "account", action |-> "approveAgent"] >>

\* connectAsync has succeeded for a vault
C31_Witness ==
    /\ ConnectSucceeded
    /\ hlCfg.vault # ""
    /\ hlWallet = "agent"
    /\ hlSessions = {"info", "agent.info"}

-----------------------------------------------------------------------------
(* Properties of the contract cache                                        *)

\* every cached id is the id of a committed row with the cached key
CacheMatchesRows ==
    \A key \in ContractKeys :
        contract_cache[key] # 0 =>
            \E i \in 1..Len(contracts) :
                /\ contracts[i].id = contract_cache[key]
                /\ contracts[i].key = key

\* the cache is written only by a call whose transaction has committed
CacheWrittenAfterCommit ==
    contract_cache' # contract_cache =>
        \E t \in Tasks :
            /\ task[t].pc = "goc_release"
            /\ contract_cache' =
                  [contract_cache EXCEPT
                     ![cache_key(task[t].contract_data)] = task[t].contract_id]

\* a call whose transaction fails leaves the cache as it was
FailureLeavesCache ==
    \A t \in Tasks :
        (task[t].pc # "failed" /\ task'[t].pc = "failed") =>
            contract_cache' = contract_cache

\* a call that finds its key in the cache returns the cached id at once:
\* no connection is taken from the pool and no lock is taken
CacheHitTouchesNothing ==
    \A t \in Tasks :
        ( /\ CanCall(t)
          /\ task'[t] # task[t]
          /\ contract_cache[cache_key(task'[t].contract_data)] # 0 ) =>
            /\ task'[t].pc = "done"
            /\ task'[t].contract_id
                   = contract_cache[cache_key(task'[t].contract_data)]
            /\ poolFree' = poolFree
            /\ advisoryLocks' = advisoryLocks
            /\ contracts' = contracts

\* C32: the contract cache gets an entry only after the transaction of the
\* lookup has committed, a cached id is the id of the committed row of its
\* tuple, a failed transaction adds no entry, and a call that hits the
\* cache takes no connection and no lock.
C32_CacheFollowsCommit ==
    /\ []CacheMatchesRows
    /\ [][ /\ CacheWrittenAfterCommit
           /\ FailureLeavesCache
           /\ CacheHitTouchesNothing ]_vars

\* a transaction has failed after its INSERT (id 1 of the sequence is
\* lost), a call has created and cached the row of the tuple with id 2, and
\* another call has been answered from the cache (no SELECT found the row)
C32_Witness ==
    \E t, u \in Tasks :
        /\ t # u
        /\ task[t].pc = "done"
        /\ task[u].pc = "done"
        /\ task[u].contract_data = task[t].contract_data
        /\ contractsSeq = 2
        /\ Len(contracts) = 1
        /\ contract_cache[cache_key(task[u].contract_data)] = 2
        /\ task[u].existing = 0
        /\ task[t].existing = 0
        /\ task[u].contract_id = 2
        /\ task[t].contract_id = 2

-----------------------------------------------------------------------------
(* Properties of the news categories                                       *)

\* the row of the category has no parent
IsMainCategory(id) == news_categories[id].parent_id = 0

\* C33: every row of news_categories has no parent or a parent that has no
\* parent, and the id a call resolves as its main category is the id of a
\* row without a parent.
C33_TwoLevelCategories ==
    /\ \A i \in 1..Len(news_categories) :
           \/ IsMainCategory(i)
           \/ IsMainCategory(news_categories[i].parent_id)
    /\ \A t \in NewsTasks :
           newsTask[t].main_cat_id # 0 => IsMainCategory(newsTask[t].main_cat_id)

-----------------------------------------------------------------------------
(* Properties of the pool                                                  *)

\* the upserts that hold a connection and wait in get_or_create_contract
\* for another one
WaitingUpserts == { t \in PlTasks : plPc[t] = "goc_acquire" }

\* C34: the pool is never in a state in which all its connections are held
\* by upserts that wait for get_or_create_contract to get a connection.
C34_PoolNeverHeldByWaiters ==
    ~(plFree = 0 /\ Cardinality(WaitingUpserts) = MaxPool)

-----------------------------------------------------------------------------
(* Properties of unsubscribe resuming after its send                       *)

\* C35: when an unsubscribe that was suspended in its send resumes, every
\* entry of the topic that carries another id than the one it was called
\* with, also one registered during the send, is still in the registry.
C35_ResumedUnsubscribeKeepsOthers ==
    [][ (unPc = "sending" /\ unPc' = "idle") =>
            \A k \in 1..Len(active_subscriptions[unCall[1].ident]) :
                active_subscriptions[unCall[1].ident][k].subscription_id
                        # unCall[1].subscription_id =>
                    \E j \in 1..Len(active_subscriptions'[unCall[1].ident]) :
                        active_subscriptions'[unCall[1].ident][j]
                            = active_subscriptions[unCall[1].ident][k] ]_vars

-----------------------------------------------------------------------------
(* Properties of the read loop after a reconnection                        *)

\* The identifiers for which a subscribe frame went out on the current
\* connection.
SentIdentifiers ==
    { subscription_to_identifier(sent[k].subscription) : k \in 1..Len(sent) }

\* The identifier whose subscribe frame a caller of subscribe() is still
\* sending.
SendingIdentifiers ==
    { subscription_to_identifier(clFrame[k].subscription) :
          k \in 1..Len(clFrame) }

\* C36: whenever run_forever reads from an open connection, a subscribe
\* frame has been sent on that connection for every identifier that has a
\* registered callback (or is being sent by the caller that registered it).
C36_ReadLoopCoversRegistry ==
    (wsPc = "recv" /\ connOpen) =>
        \A ident \in Identifiers :
            active_subscriptions[ident] # <<>> =>
                ident \in SentIdentifiers \cup SendingIdentifiers

-----------------------------------------------------------------------------
(* Properties of the rows of closed bars                                   *)

\* The bar of a window that a newer update has closed: the first of two
\* entries in the order of time; it is the last revision received for its
\* timestamp.
ClosedBars ==
    LET candles == candle_cache[candle_cache_key(CandleContract, CandleInterval)]
    IN  IF Len(candles) = 2 /\ candles[1].time < candles[2].time
        THEN {candles[1]} ELSE {}

\* C37: once a bar is closed by an update with a newer timestamp and the
\* insert_candles calls made so far have returned, every historical_data
\* row for the bar's time holds the open, high, low, close and volume of
\* the last revision received for the bar.
C37_ClosedBarHoldsLastRevision ==
    (\A t \in Tasks : CanCall(t)) =>
        \A bar \in ClosedBars :
            \A i \in 1..Len(historical_data) :
                historical_data[i].time = FromTimestampUtc(bar.time) =>
                    /\ historical_data[i].open = bar.open
                    /\ historical_data[i].high = bar.high
                    /\ historical_data[i].low = bar.low
                    /\ historical_data[i].close = bar.close
                    /\ historical_data[i].volume = bar.volume

-----------------------------------------------------------------------------
(* Properties of APIManager.exchanges                                      *)

\* C38: whenever the HyperLiquid adapter is in APIManager's exchanges map,
\* its info and exchange handles are set and the venue has answered the
\* agent approval with status ok (the agent's client has been created).
C38_LoadedAdapterIsUsable ==
    ExchangeName \in exchanges =>
        /\ hlInfo # "None"
        /\ hlExchange # "None"
        /\ hlWallet = "agent"

-----------------------------------------------------------------------------
(* Properties of Info.initialize                                           *)

\* C39: over every sequence and interleaving of initialize calls on one
\* Info instance, also overlapping ones and ones that follow a call that
\* failed in its metadata fetch, the read-loop and keepalive tasks are
\* created at most once, and a call made on an initialized instance
\* creates no task, posts no request and leaves the metadata alone.
C39_InitializeStartsTasksOnce ==
    /\ [](ws_tasks <= 1)
    /\ [][info_initialized =>
              UNCHANGED <<info_initialized, coin_to_asset, ws_tasks,
                          metaRequests>>]_vars

-----------------------------------------------------------------------------
(* Properties of is_empty                                                  *)

\* C40: after any sequence of append, popleft, popright and reset on a
\* ring buffer, is_empty is true exactly when the buffer's length, the
\* right index minus the left index, is 0.
C40_EmptyIffLengthZero ==
    capacity > 0 =>
        (is_empty(left_index, right_index)
            <=> RbLen(left_index, right_index) = 0)

=============================================================================
